---------------------------- MODULE Spec2Model ----------------------------
(***************************************************************************)
(* A model of the UMLS knowledge-graph pipeline: the in-memory graph       *)
(* traversal (src/src/search/graph_traversal.py), the relevance scoring    *)
(* formula (src/src/scoring), the SurrealDB client                         *)
(* (src/src/database/surreal_client.py), the database-writing              *)
(* orchestration nodes (src/assets) and the legacy path-finding            *)
(* orchestrator (src/rel_mod_old).                                         *)
(*                                                                         *)
(* Python floats are modelled as exact rationals <<numerator,              *)
(* denominator>> in lowest terms with a positive denominator; relationship *)
(* weights are the rationals w/10.                                         *)
(***************************************************************************)
EXTENDS Integers, Sequences, FiniteSets, TLC

VARIABLES
    \* ---- inputs and result of the pure graph / scoring functions ----
    concept_id,              \* start_concept_id / concept_id argument
    domain_cluster,          \* target_concept_ids / domain_cluster argument
    relationship_map,        \* concept -> list of <<target_id, rel_type, weight>>
    max_hops,                \* max_hops argument
    ancestor_map,            \* concept -> set of its ancestor ids
    graph_paths,             \* concept -> (target -> hop count)
    concept_embedding,       \* embedding vector of the concept
    domain_cluster_centroid, \* centroid vector of the cluster
    source_authority,        \* source_authority argument (a rational)
    fn,                      \* the function that was called ("" before the call)
    ret                      \* what it returned

VARIABLES
    \* ---- the database and the clients of src/src/database/surreal_client.py ----
    store,                   \* the records of the database: [id |-> <<table, rid>>, data |-> d]
    client_db,               \* per client: SurrealDBClient.db, "None" or "Surreal"
    client_connected,        \* per client: SurrealDBClient._connected
    sync_connected,          \* per client: SurrealDBSync._connected
    upc,                     \* per client: where its upsert call stands
    uarg,                    \* per client: the arguments of its upsert call
    uerr,                    \* per client: the error its last call raised, "" if none
    uops,                    \* per client: the driver calls its upsert has issued
    ufound,                  \* per client: whether the record existed when upsert began
    expected,                \* record id -> data of the last upsert of it that returned
    all_ok,                  \* no upsert has raised so far
    ncalls                   \* number of upsert calls begun

dbVars == <<store, client_db, client_connected, sync_connected, upc, uarg, uerr, uops,
            ufound, expected, all_ok, ncalls>>

VARIABLES
    \* ---- the orchestration nodes of src/assets ----
    node,                    \* per client: the node that owns it
    npc,                     \* per client: where its node stands
    nwork,                   \* per client: the steps its node has still to do
    nexc                     \* per client: the exception its node is propagating, "" if none

nodeVars == <<node, npc, nwork, nexc>>

VARIABLES
    \* ---- the legacy orchestrator of src/rel_mod_old ----
    lpc,                     \* where main and GraphTraversalPipeline.run stand
    legacy_db,               \* SurrealClient.db, "None" or "Surreal"
    legacy_connected,        \* SurrealClient._connected
    source_concepts,         \* the loaded source concept names
    target_concepts,         \* the loaded target concept names
    source_ids,              \* the resolved source ids
    target_ids,              \* the resolved target ids
    results,                 \* the number of traversal results
    lexc,                    \* the exception run is handling, "" if none
    success,                 \* what run returned: "None", "True" or "False"
    exit_code,               \* the argument of sys.exit, -1 before it is called
    outcome                  \* how the run ended

legacyVars == <<lpc, legacy_db, legacy_connected, source_concepts, target_concepts,
                source_ids, target_ids, results, lexc, success, exit_code, outcome>>

VARIABLES
    \* ---- a call of one of the remaining functions and methods ----
    input,                   \* the arguments of the call
    obj                      \* the object the call works on, with the progress of the call

callVars == <<input, obj>>

fnVars == <<concept_id, domain_cluster, relationship_map, max_hops, ancestor_map,
            graph_paths, concept_embedding, domain_cluster_centroid,
            source_authority, fn, ret>>

vars == <<fnVars, dbVars, nodeVars, legacyVars, callVars>>

-----------------------------------------------------------------------------
(* Bounds of the model *)

\* number of relationship tuples in a whole relationship map
MaxEdges == 3
\* max_hops ranges over 0..MaxHopsArg
MaxHopsArg == 3
\* longest relationship list handed to calculate_s_struct
MaxStructOut == 2
\* number of (descendant, ancestor) records behind an ancestor map
MaxAncestorRecords == 1
\* hop counts of a graph_paths map range over 0..MaxHopCount
MaxHopCount == 5
\* number of upsert calls a client makes
MaxUpserts == 3
\* length of a loaded concept list of the legacy orchestrator
MaxConcepts == 2
\* number of words joined into a vocabulary or relationship id
MaxWords == 2
\* number of rows of a table handed to the cleaner or the validator
MaxRows == 3
\* number of concepts, and of relevance scores, of the audit report
MaxAuditConcepts == 5
\* number of characters of the schema file
MaxSchemaChars == 5
\* number of with_* calls on a search builder
MaxBuilderCalls == 3
\* number of rows the vector query answers with, and the limit of a hybrid search
MaxVectorRows == 2
MaxLimit == 2
\* records of each input table of the stand-alone runner
MaxRunnerRecords == 2

\* rows of the concept table of the relevance stage
MaxStageRows == 2

\* records of each input table of the orchestrated pipeline
MaxPipelineRecords == 1

\* number of results of the legacy traversal
MaxResults == 2

\* the concept ids of the model
Concepts == {1, 2, 3, 4}

-----------------------------------------------------------------------------
(* Python dicts are functions; d[k] = v is Put *)

RECURSIVE SeqsUpTo(_, _)
SeqsUpTo(S, n) ==
    IF n = 0 THEN {<<>>}
    ELSE LET shorter == SeqsUpTo(S, n - 1)
         IN  shorter \cup {Append(s, e) : s \in {x \in shorter : Len(x) = n - 1}, e \in S}

EmptyMap == [k \in {} |-> 0]

Put(d, k, v) == [x \in (DOMAIN d) \cup {k} |-> IF x = k THEN v ELSE d[x]]

(* Exact rationals standing for Python floats *)

RECURSIVE Gcd(_, _)
Gcd(a, b) == IF b = 0 THEN a ELSE Gcd(b, a % b)

Abs(a) == IF a < 0 THEN -a ELSE a

Rat(n, d) ==
    LET g == Gcd(Abs(n), Abs(d))
        s == IF d < 0 THEN -1 ELSE 1
    IN  <<(s * n) \div g, (s * d) \div g>>

RAdd(a, b) == Rat(a[1] * b[2] + b[1] * a[2], a[2] * b[2])
RMul(a, b) == Rat(a[1] * b[1], a[2] * b[2])
RDiv(a, b) == Rat(a[1] * b[2], a[2] * b[1])
RLess(a, b) == a[1] * b[2] < b[1] * a[2]
RLeq(a, b) == a[1] * b[2] <= b[1] * a[2]
RZero == <<0, 1>>
ROne == <<1, 1>>
RInt(n) == <<n, 1>>

-----------------------------------------------------------------------------
(* src/src/search/graph_traversal.py: find_paths_3hop *)

\* line 36: if hop_count >= max_hops: continue
HopLimitReached_Off(hop_count, mh) == hop_count > mh
HopLimitReached(hop_count, mh) == hop_count >= mh

\* line 44: target_id in visited and visited[target_id] <= hop_count + 1
AlreadyReached(visited, target_id, hop_count) ==
    target_id \in DOMAIN visited /\ visited[target_id] <= hop_count + 1

\* lines 43-54: the loop over relationship_map[current_id]
RECURSIVE ExploreNeighbors(_, _, _, _)
ExploreNeighbors(edges, hop_count, targets, st) ==
    IF edges = <<>> THEN st
    ELSE LET target_id == Head(edges)[1]
             st2 == IF AlreadyReached(st.visited, target_id, hop_count)
                    THEN st
                    ELSE [visited |-> Put(st.visited, target_id, hop_count + 1),
                          results |-> IF target_id \in targets
                                      THEN Put(st.results, target_id, hop_count + 1)
                                      ELSE st.results,
                          queue   |-> Append(st.queue, <<target_id, hop_count + 1>>)]
         IN  ExploreNeighbors(Tail(edges), hop_count, targets, st2)

\* lines 33-56: the while loop over the deque
RECURSIVE BfsLoop(_, _, _, _)
BfsLoop(st, targets, rel_map, mh) ==
    IF st.queue = <<>> THEN st.results
    ELSE LET current_id == Head(st.queue)[1]
             hop_count  == Head(st.queue)[2]
             popped     == [st EXCEPT !.queue = Tail(st.queue)]
         IN  IF HopLimitReached(hop_count, mh) THEN BfsLoop(popped, targets, rel_map, mh)
             ELSE IF current_id \notin DOMAIN rel_map
                  THEN BfsLoop(popped, targets, rel_map, mh)
                  ELSE BfsLoop(ExploreNeighbors(rel_map[current_id], hop_count,
                                                targets, popped),
                               targets, rel_map, mh)

find_paths_3hop(start, targets, rel_map, mh) ==
    IF start \notin DOMAIN rel_map THEN EmptyMap
    ELSE BfsLoop([queue   |-> << <<start, 0>> >>,
                  visited |-> Put(EmptyMap, start, 0),
                  results |-> EmptyMap],
                 targets, rel_map, mh)

-----------------------------------------------------------------------------
(* src/src/search/graph_traversal.py: find_paths_with_weights *)

\* heap entries are tuples <<weighted_distance, concept_id, hop_count>>, which
\* Python orders lexicographically
HeapEntryLess(a, b) ==
    \/ RLess(a[1], b[1])
    \/ a[1] = b[1] /\ a[2] < b[2]
    \/ a[1] = b[1] /\ a[2] = b[2] /\ a[3] < b[3]

\* heapq.heappop: the index of a smallest entry of the heap
HeapMinIndex(queue) ==
    CHOOSE i \in 1..Len(queue) : \A j \in 1..Len(queue) : ~HeapEntryLess(queue[j], queue[i])

HeapRemove(queue, i) ==
    [j \in 1..(Len(queue) - 1) |-> IF j < i THEN queue[j] ELSE queue[j + 1]]

\* lines 94-97: an entry popped for a concept whose visited record is no worse
PoppedIsStale(visited, current_id, hop_count, weighted_dist) ==
    /\ current_id \in DOMAIN visited
    /\ visited[current_id][1] <= hop_count
    /\ RLeq(visited[current_id][2], weighted_dist)

\* lines 109-112: the neighbour already has a record at least as good
NeighbourIsKnown(visited, target_id, new_hop, new_dist) ==
    /\ target_id \in DOMAIN visited
    /\ \/ visited[target_id][1] < new_hop
       \/ visited[target_id][1] = new_hop /\ RLeq(visited[target_id][2], new_dist)

\* lines 105-121: the loop over relationship_map[current_id]
RECURSIVE ExploreWeighted(_, _, _, _, _)
ExploreWeighted(edges, hop_count, weighted_dist, targets, st) ==
    IF edges = <<>> THEN st
    ELSE LET target_id == Head(edges)[1]
             weight    == Head(edges)[3]
             new_hop   == hop_count + 1
             new_dist  == RAdd(weighted_dist, RDiv(ROne, weight))
             st2 == IF NeighbourIsKnown(st.visited, target_id, new_hop, new_dist)
                    THEN st
                    ELSE [visited |-> Put(st.visited, target_id, <<new_hop, new_dist>>),
                          results |-> IF target_id \in targets
                                      THEN Put(st.results, target_id, <<new_hop, new_dist>>)
                                      ELSE st.results,
                          queue   |-> Append(st.queue, <<new_dist, target_id, new_hop>>)]
         IN  ExploreWeighted(Tail(edges), hop_count, weighted_dist, targets, st2)

\* lines 88-123: the while loop over the heap
RECURSIVE WeightedLoop(_, _, _, _)
WeightedLoop(st, targets, rel_map, mh) ==
    IF st.queue = <<>> THEN st.results
    ELSE LET i             == HeapMinIndex(st.queue)
             weighted_dist == st.queue[i][1]
             current_id    == st.queue[i][2]
             hop_count     == st.queue[i][3]
             popped        == [st EXCEPT !.queue = HeapRemove(st.queue, i)]
             marked        == [popped EXCEPT !.visited =
                                  Put(popped.visited, current_id, <<hop_count, weighted_dist>>)]
         IN  IF hop_count >= mh THEN WeightedLoop(popped, targets, rel_map, mh)
             ELSE IF PoppedIsStale(popped.visited, current_id, hop_count, weighted_dist)
                  THEN WeightedLoop(popped, targets, rel_map, mh)
                  ELSE IF current_id \notin DOMAIN rel_map
                       THEN WeightedLoop(marked, targets, rel_map, mh)
                       ELSE WeightedLoop(ExploreWeighted(rel_map[current_id], hop_count,
                                                         weighted_dist, targets, marked),
                                         targets, rel_map, mh)

find_paths_with_weights(start, targets, rel_map, mh) ==
    IF start \notin DOMAIN rel_map THEN EmptyMap
    ELSE WeightedLoop([queue   |-> << <<RZero, start, 0>> >>,
                       visited |-> EmptyMap,
                       results |-> EmptyMap],
                      targets, rel_map, mh)

-----------------------------------------------------------------------------
(* src/src/search/graph_traversal.py: calculate_path_density *)

\* line 152: weight = 1.0 / ((hop_count + 1) ** 2)
PathDecay_Linear(hop_count) == Rat(1, hop_count + 1)
PathDecay(hop_count) == Rat(1, (hop_count + 1) * (hop_count + 1))

\* lines 149-153: total_score += weight, over paths.items()
RECURSIVE SumPathDecay(_, _)
SumPathDecay(keys, paths) ==
    IF keys = {} THEN RZero
    ELSE LET target_id == CHOOSE x \in keys : TRUE
         IN  RAdd(PathDecay(paths[target_id]), SumPathDecay(keys \ {target_id}, paths))

calculate_path_density(c, cluster, rel_map, mh) ==
    LET paths == find_paths_3hop(c, cluster, rel_map, mh)
    IN  IF Cardinality(cluster) = 0 THEN RZero
        ELSE RDiv(SumPathDecay(DOMAIN paths, paths), RInt(Cardinality(cluster)))

\* max_hops: int = 3
DefaultMaxHops == 3

-----------------------------------------------------------------------------
(* src/src/scoring/formula.py: calculate_s_density *)

\* line 106: if hop_count <= 3
WithinDensityHops_Any(hop_count) == TRUE
WithinDensityHops(hop_count) == hop_count <= 3

\* line 108: weight = 1.0 / ((hop_count + 1) ** 2)
DistanceDecay(hop_count) == Rat(1, (hop_count + 1) * (hop_count + 1))

\* lines 103-105: the cluster members that contribute
DensityMembers(cluster, paths_from_concept) ==
    {cluster_id \in cluster : cluster_id \in DOMAIN paths_from_concept
                              /\ WithinDensityHops(paths_from_concept[cluster_id])}

\* line 109: total_score += weight
RECURSIVE SumDecay(_, _)
SumDecay(keys, hops) ==
    IF keys = {} THEN RZero
    ELSE LET k == CHOOSE x \in keys : TRUE
         IN  RAdd(DistanceDecay(hops[k]), SumDecay(keys \ {k}, hops))

calculate_s_density(c, cluster, paths) ==
    IF c \notin DOMAIN paths THEN RZero
    ELSE LET paths_from_concept == paths[c]
             total_score == SumDecay(DensityMembers(cluster, paths_from_concept),
                                     paths_from_concept)
         IN  IF Cardinality(cluster) > 0
             THEN RDiv(total_score, RInt(Cardinality(cluster)))
             ELSE RZero

-----------------------------------------------------------------------------
(* src/src/scoring/formula.py: calculate_s_struct, calculate_s_sem,        *)
(* calculate_s_authority, sigmoid                                          *)

\* line 36: the relationship types that count as a direct mapping / is_a
DirectRelTypes_NoIsa == {"mapped_from", "maps_to", "concept_same_as", "is_a"}
DirectRelTypes == {"mapped_from", "maps_to", "concept_same_as", "is_a", "isa"}

\* lines 32-37
HasDirectRelationship(c, cluster, rel_map) ==
    /\ c \in DOMAIN rel_map
    /\ \E i \in 1..Len(rel_map[c]) :
          /\ rel_map[c][i][1] \in cluster
          /\ rel_map[c][i][2] \in DirectRelTypes

\* lines 40-42
OwnAncestorInCluster(c, cluster, anc_map) ==
    c \in DOMAIN anc_map /\ anc_map[c] \cap cluster # {}

\* lines 45-48
ListedUnderClusterMember(c, cluster, anc_map) ==
    \E cluster_id \in cluster : cluster_id \in DOMAIN anc_map /\ c \in anc_map[cluster_id]

calculate_s_struct_Linked(c, cluster, rel_map, anc_map) ==
    IF HasDirectRelationship(c, cluster, rel_map) THEN ROne
    ELSE IF OwnAncestorInCluster(c, cluster, anc_map) THEN Rat(1, 2)
    ELSE IF ListedUnderClusterMember(c, cluster, anc_map) THEN Rat(1, 2)
    ELSE RZero
calculate_s_struct(c, cluster, rel_map, anc_map) ==
    IF c \in cluster THEN ROne
    ELSE IF HasDirectRelationship(c, cluster, rel_map) THEN ROne
    ELSE IF OwnAncestorInCluster(c, cluster, anc_map) THEN Rat(1, 2)
    ELSE IF ListedUnderClusterMember(c, cluster, anc_map) THEN Rat(1, 2)
    ELSE RZero

\* np.dot of two vectors of the same length
RECURSIVE Dot(_, _)
Dot(u, v) ==
    IF u = <<>> THEN RZero
    ELSE RAdd(RMul(Head(u), Head(v)), Dot(Tail(u), Tail(v)))

RMax(a, b) == IF RLess(a, b) THEN b ELSE a
RMin(a, b) == IF RLess(b, a) THEN b ELSE a

\* lines 69-76
calculate_s_sem(embedding, centroid) ==
    IF Len(embedding) = 0 \/ Len(centroid) = 0 THEN RZero
    ELSE RMax(RZero, RMin(ROne, RDiv(RAdd(Dot(embedding, centroid), ROne), RInt(2))))

\* line 132: float(source_authority)
calculate_s_authority(authority) == authority

(* np.exp(-x) is a transcendental; it is modelled by an enclosure in fixed *)
(* point: ExpNegLo(x) / ExpScale <= e^-x <= ExpNegHi(x) / ExpScale.  For   *)
(* 0 <= x <= 1 the bounds are the alternating Taylor sums with every term  *)
(* rounded outwards; for x > 1 they are 0 and the bound at 1.              *)
ExpScale == 10000

FloorDiv(a, b) == a \div b
CeilDiv(a, b) == (a + b - 1) \div b

\* x^k / k! in fixed point, rounded down from below / up from above
RECURSIVE TermLo(_, _)
TermLo(xlo, k) == IF k = 0 THEN ExpScale ELSE FloorDiv(TermLo(xlo, k - 1) * xlo, k * ExpScale)
RECURSIVE TermHi(_, _)
TermHi(xhi, k) == IF k = 0 THEN ExpScale ELSE CeilDiv(TermHi(xhi, k - 1) * xhi, k * ExpScale)

TaylorLo(xlo, xhi) ==
    TermLo(xlo, 0) - TermHi(xhi, 1) + TermLo(xlo, 2) - TermHi(xhi, 3)
    + TermLo(xlo, 4) - TermHi(xhi, 5)
TaylorHi(xlo, xhi) ==
    TermHi(xhi, 0) - TermLo(xlo, 1) + TermHi(xhi, 2) - TermLo(xlo, 3) + TermHi(xhi, 4)

\* the enclosure <<lo, hi>> of e^-x for a rational x >= 0
ExpNeg(x) ==
    LET xlo == FloorDiv(x[1] * ExpScale, x[2])
        xhi == CeilDiv(x[1] * ExpScale, x[2])
    IN  IF xhi <= ExpScale
        THEN <<TaylorLo(xlo, xhi), TaylorHi(xlo, xhi)>>
        ELSE <<0, TaylorHi(ExpScale, ExpScale)>>

\* line 145: 1.0 / (1.0 + np.exp(-x)), as an enclosure <<lo, hi>> over ExpScale;
\* for x < 0, e^-x >= 1 gives no more than 0 <= sigmoid <= 1/2
sigmoid(x) ==
    IF x[1] < 0 THEN <<0, CeilDiv(ExpScale, 2)>>
    ELSE LET e == ExpNeg(x)
         IN  <<FloorDiv(ExpScale * ExpScale, ExpScale + e[2]),
               CeilDiv(ExpScale * ExpScale, ExpScale + e[1])>>

-----------------------------------------------------------------------------
(* src/src/scoring/relevance.py: RelevanceScorer *)

\* lines 21-24: the default weights
alpha == Rat(4, 10)
beta == Rat(3, 10)
gamma == Rat(2, 10)
delta == Rat(1, 10)

\* lines 74-79
WeightedSum_Unweighted(s_struct, s_sem, s_density, s_authority) ==
    RAdd(RAdd(s_struct, s_sem), RAdd(s_density, s_authority))
WeightedSum(s_struct, s_sem, s_density, s_authority) ==
    RAdd(RAdd(RMul(alpha, s_struct), RMul(beta, s_sem)),
         RAdd(RMul(gamma, s_density), RMul(delta, s_authority)))

calculate_relevance(c, cluster, rel_map, anc_map, embedding, centroid, paths, authority) ==
    LET s_struct    == calculate_s_struct(c, cluster, rel_map, anc_map)
        s_sem       == calculate_s_sem(embedding, centroid)
        s_density   == calculate_s_density(c, cluster, paths)
        s_authority == calculate_s_authority(authority)
        final_score == sigmoid(WeightedSum(s_struct, s_sem, s_density, s_authority))
    IN  [score |-> final_score, s_struct |-> s_struct, s_sem |-> s_sem,
         s_density |-> s_density, s_authority |-> s_authority]

-----------------------------------------------------------------------------
(* src/src/database/surreal_client.py: SurrealDBClient and the driver       *)
(*                                                                         *)
(* The driver (the surrealdb package) is not part of the repository.  Any  *)
(* driver call may raise.  db.create of a record id that exists raises;    *)
(* db.update replaces the content of the record; db.select of a missing    *)
(* record returns nothing.                                                 *)

Clients == {"w1", "w2"}

NoRecord == "None"

\* line 211: full_id = f"{table}:{record_id}"
FullId(table, record_id) == <<table, record_id>>

\* db.select(full_id): the data of the record, or nothing
DriverSelect(st, full_id) ==
    IF \E r \in st : r.id = full_id
    THEN (CHOOSE r \in st : r.id = full_id).data
    ELSE NoRecord

\* db.update(full_id, data) on a record that exists
DriverUpdate(st, full_id, data) ==
    {r \in st : r.id # full_id} \cup {[id |-> full_id, data |-> data]}

\* db.create(full_id, data) on a record id that does not exist
DriverCreate(st, full_id, data) == st \cup {[id |-> full_id, data |-> data]}

\* line 216: if existing
ExistingFound_Inverted(existing) == existing = NoRecord
ExistingFound(existing) == existing # NoRecord

\* lines 52-73: connect
ClientConnect(w) ==
    \/ \* Surreal(self.url) raises
       /\ uerr' = [uerr EXCEPT ![w] = "DatabaseConnectionError"]
       /\ UNCHANGED <<client_db, client_connected>>
    \/ \* self.db.use raises
       /\ client_db' = [client_db EXCEPT ![w] = "Surreal"]
       /\ uerr' = [uerr EXCEPT ![w] = "DatabaseConnectionError"]
       /\ UNCHANGED client_connected
    \/ /\ client_db' = [client_db EXCEPT ![w] = "Surreal"]
       /\ client_connected' = [client_connected EXCEPT ![w] = TRUE]
       /\ uerr' = [uerr EXCEPT ![w] = ""]

\* lines 75-83: close
ClientClose(w) ==
    IF client_db[w] # "None" /\ client_connected[w]
    THEN \/ \* self.db.close() returns
            /\ client_connected' = [client_connected EXCEPT ![w] = FALSE]
            /\ UNCHANGED client_db
         \/ \* self.db.close() raises: except Exception: pass
            UNCHANGED <<client_db, client_connected>>
    ELSE UNCHANGED <<client_db, client_connected>>

\* lines 208, 161, 183: if not self._connected or not self.db
NotConnected(w) == ~client_connected[w] \/ client_db[w] = "None"

UpsertIdle(w) == upc[w] \in {"idle", "returned", "raised"}

\* lines 208-211: upsert is called
UpsertBegin(w, table, record_id, data) ==
    /\ UpsertIdle(w)
    /\ ncalls < MaxUpserts
    /\ ncalls' = ncalls + 1
    /\ uarg' = [uarg EXCEPT ![w] = [table |-> table, record_id |-> record_id, data |-> data]]
    /\ uops' = [uops EXCEPT ![w] = <<>>]
    /\ ufound' = [ufound EXCEPT ![w] = \E r \in store : r.id = FullId(table, record_id)]
    /\ IF NotConnected(w)
       THEN /\ upc' = [upc EXCEPT ![w] = "raised"]
            /\ uerr' = [uerr EXCEPT ![w] = "DatabaseConnectionError"]
            /\ all_ok' = FALSE
       ELSE /\ upc' = [upc EXCEPT ![w] = "select"]
            /\ uerr' = [uerr EXCEPT ![w] = ""]
            /\ UNCHANGED all_ok
    /\ UNCHANGED <<store, client_db, client_connected, sync_connected, expected>>

\* lines 214-219: existing = await asyncio.to_thread(self.db.select, full_id)
UpsertSelect(w) ==
    /\ upc[w] = "select"
    /\ uops' = [uops EXCEPT ![w] = Append(@, "select")]
    /\ \/ \* the select returns
          LET existing == DriverSelect(store, FullId(uarg[w].table, uarg[w].record_id))
          IN  upc' = [upc EXCEPT ![w] = IF ExistingFound(existing) THEN "update" ELSE "create"]
       \/ \* the select raises: except: pass
          upc' = [upc EXCEPT ![w] = "create"]
    /\ UNCHANGED <<store, client_db, client_connected, sync_connected, uarg, uerr, ufound,
                   expected, all_ok, ncalls>>
    /\ UNCHANGED <<fnVars, nodeVars, legacyVars, callVars>>

\* line 217 and lines 183-189: return await self.update(full_id, data)
UpsertUpdate(w) ==
    /\ upc[w] = "update"
    /\ LET full_id == FullId(uarg[w].table, uarg[w].record_id)
       IN  IF NotConnected(w)
           THEN \* update raises DatabaseConnectionError, which upsert's except: swallows
                /\ upc' = [upc EXCEPT ![w] = "create"]
                /\ UNCHANGED <<store, uops, expected>>
           ELSE /\ uops' = [uops EXCEPT ![w] = Append(@, "update")]
                /\ \/ \* self.db.update returns
                      /\ store' = DriverUpdate(store, full_id, uarg[w].data)
                      /\ upc' = [upc EXCEPT ![w] = "returned"]
                      /\ expected' = Put(expected, full_id, uarg[w].data)
                   \/ \* self.db.update raises: update raises QueryExecutionError,
                      \* which upsert's except: swallows
                      /\ upc' = [upc EXCEPT ![w] = "create"]
                      /\ UNCHANGED <<store, expected>>
    /\ UNCHANGED <<client_db, client_connected, sync_connected, uarg, uerr, ufound, all_ok,
                   ncalls>>
    /\ UNCHANGED <<fnVars, nodeVars, legacyVars, callVars>>

\* line 221 and lines 161-170: return await self.create(table, data, record_id)
UpsertCreate(w) ==
    /\ upc[w] = "create"
    /\ LET full_id == FullId(uarg[w].table, uarg[w].record_id)
       IN  IF NotConnected(w)
           THEN /\ upc' = [upc EXCEPT ![w] = "raised"]
                /\ uerr' = [uerr EXCEPT ![w] = "DatabaseConnectionError"]
                /\ all_ok' = FALSE
                /\ UNCHANGED <<store, uops, expected>>
           ELSE /\ uops' = [uops EXCEPT ![w] = Append(@, "create")]
                /\ \/ \* self.db.create returns
                      /\ ~\E r \in store : r.id = full_id
                      /\ store' = DriverCreate(store, full_id, uarg[w].data)
                      /\ upc' = [upc EXCEPT ![w] = "returned"]
                      /\ expected' = Put(expected, full_id, uarg[w].data)
                      /\ UNCHANGED <<uerr, all_ok>>
                   \/ \* self.db.create raises
                      /\ upc' = [upc EXCEPT ![w] = "raised"]
                      /\ uerr' = [uerr EXCEPT ![w] = "QueryExecutionError"]
                      /\ all_ok' = FALSE
                      /\ UNCHANGED <<store, expected>>
    /\ UNCHANGED <<client_db, client_connected, sync_connected, uarg, ufound, ncalls>>
    /\ UNCHANGED <<fnVars, nodeVars, legacyVars, callVars>>

InitDb ==
    /\ store = {}
    /\ client_db = [w \in Clients |-> "None"]
    /\ client_connected = [w \in Clients |-> FALSE]
    /\ sync_connected = [w \in Clients |-> FALSE]
    /\ upc = [w \in Clients |-> "idle"]
    /\ uarg = [w \in Clients |-> [table |-> "", record_id |-> "", data |-> ""]]
    /\ uerr = [w \in Clients |-> ""]
    /\ uops = [w \in Clients |-> <<>>]
    /\ ufound = [w \in Clients |-> FALSE]
    /\ expected = EmptyMap
    /\ all_ok = TRUE
    /\ ncalls = 0

InitNodeUnused ==
    /\ node = [w \in Clients |-> ""]
    /\ npc = [w \in Clients |-> "unused"]
    /\ nwork = [w \in Clients |-> <<>>]
    /\ nexc = [w \in Clients |-> ""]

InitLegacyUnused ==
    /\ lpc = "unused"
    /\ legacy_db = "None"
    /\ legacy_connected = FALSE
    /\ source_concepts = <<>>
    /\ target_concepts = <<>>
    /\ source_ids = <<>>
    /\ target_ids = <<>>
    /\ results = 0
    /\ lexc = ""
    /\ success = "None"
    /\ exit_code = -1
    /\ outcome = ""

InitCallUnused ==
    /\ input = <<>>
    /\ obj = <<>>

InitRest == InitDb /\ InitNodeUnused /\ InitLegacyUnused /\ InitCallUnused

-----------------------------------------------------------------------------
(* src/src/database/surreal_client.py: SurrealDBSync *)

\* lines 321-324: connect
SyncConnect(w) ==
    /\ ClientConnect(w)
    /\ sync_connected' = [sync_connected EXCEPT ![w] = uerr'[w] = "" \/ @]

\* lines 326-329: close
SyncClose(w) ==
    /\ ClientClose(w)
    /\ sync_connected' = [sync_connected EXCEPT ![w] = FALSE]

-----------------------------------------------------------------------------
(* src/assets: the nodes that use the database                             *)
(*   client = SurrealDBSync()                                              *)
(*   try: client.connect(); <loop of upserts, or queries and a report>     *)
(*   finally: client.close()                                               *)

DbNodes == {"surreal_ingest_concepts", "surreal_ingest_relationships",
            "surreal_ingest_ancestors", "surreal_ingest_reference_tables",
            "surreal_upsert_metrics", "surreal_upsert_relevance_scores", "audit_report"}

UpsertStep(table, record_id) == [kind |-> "upsert", table |-> table, record_id |-> record_id]
QueryStep(table) == [kind |-> "query", table |-> table, record_id |-> ""]
LocalStep == [kind |-> "local", table |-> "", record_id |-> ""]

UpsertLoop(table, records) == [i \in 1..Len(records) |-> UpsertStep(table, records[i])]

\* the table a single-loop node writes
NodeTable_Concept(n) == "concept"
NodeTable(n) ==
    CASE n = "surreal_ingest_concepts" -> "concept"
      [] n = "surreal_ingest_relationships" -> "relates_to"
      [] n = "surreal_ingest_ancestors" -> "is_ancestor_of"
      [] n = "surreal_upsert_metrics" -> "metric"
      [] n = "surreal_upsert_relevance_scores" -> "relevance_score"

\* audit_report.py lines 31-86: three count queries, then the report is built and written
AuditProgram == <<QueryStep("concept"), QueryStep("metric"), QueryStep("relevance_score"),
                  LocalStep>>

\* a node leaves its try block: return, or an exception on its way out
NodeLeavesTry(w, exc) ==
    /\ npc' = [npc EXCEPT ![w] = "finally"]
    /\ nexc' = [nexc EXCEPT ![w] = exc]

\* client.connect()
NodeConnect(w) ==
    /\ npc[w] = "start"
    /\ SyncConnect(w)
    /\ IF uerr'[w] = ""
       THEN /\ npc' = [npc EXCEPT ![w] = "loop"]
            /\ UNCHANGED nexc
       ELSE NodeLeavesTry(w, uerr'[w])
    /\ UNCHANGED <<store, upc, uarg, uops, ufound, expected, all_ok, ncalls, node, nwork>>
    /\ UNCHANGED <<fnVars, legacyVars, callVars>>

\* the loops are over and the node returns
NodeLoopEnd(w) ==
    /\ npc[w] = "loop"
    /\ nwork[w] = <<>>
    /\ NodeLeavesTry(w, "")
    /\ UNCHANGED <<dbVars, node, nwork>>
    /\ UNCHANGED <<fnVars, legacyVars, callVars>>

\* one iteration of an upsert loop: the record is built and client.upsert is called
NodeLoopUpsert(w) ==
    /\ npc[w] = "loop"
    /\ nwork[w] # <<>>
    /\ Head(nwork[w]).kind = "upsert"
    /\ \/ \* building the record raises
          /\ NodeLeavesTry(w, "Exception")
          /\ UNCHANGED dbVars
       \/ /\ UpsertBegin(w, Head(nwork[w]).table, Head(nwork[w]).record_id, "a")
          /\ npc' = [npc EXCEPT ![w] = "in_upsert"]
          /\ UNCHANGED nexc
    /\ UNCHANGED <<node, nwork>>
    /\ UNCHANGED <<fnVars, legacyVars, callVars>>

\* client.upsert returns or raises
NodeUpsertDone(w) ==
    /\ npc[w] = "in_upsert"
    /\ \/ /\ upc[w] = "returned"
          /\ npc' = [npc EXCEPT ![w] = "loop"]
          /\ nwork' = [nwork EXCEPT ![w] = Tail(@)]
          /\ UNCHANGED nexc
       \/ /\ upc[w] = "raised"
          /\ NodeLeavesTry(w, uerr[w])
          /\ UNCHANGED nwork
    /\ UNCHANGED <<dbVars, node>>
    /\ UNCHANGED <<fnVars, legacyVars, callVars>>

\* client.query(...): surreal_client.py lines 108-123
NodeQuery(w) ==
    /\ npc[w] = "loop"
    /\ nwork[w] # <<>>
    /\ Head(nwork[w]).kind = "query"
    /\ IF NotConnected(w)
       THEN /\ NodeLeavesTry(w, "DatabaseConnectionError")
            /\ UNCHANGED nwork
       ELSE \/ \* self.db.query returns
               /\ nwork' = [nwork EXCEPT ![w] = Tail(@)]
               /\ UNCHANGED <<npc, nexc>>
            \/ \* self.db.query raises
               /\ NodeLeavesTry(w, "QueryExecutionError")
               /\ UNCHANGED nwork
    /\ UNCHANGED <<dbVars, node>>
    /\ UNCHANGED <<fnVars, legacyVars, callVars>>

\* audit_report.py lines 42-86: the report is computed and written to a file
NodeLocal(w) ==
    /\ npc[w] = "loop"
    /\ nwork[w] # <<>>
    /\ Head(nwork[w]).kind = "local"
    /\ \/ /\ nwork' = [nwork EXCEPT ![w] = Tail(@)]
          /\ UNCHANGED <<npc, nexc>>
       \/ /\ NodeLeavesTry(w, "Exception")
          /\ UNCHANGED nwork
    /\ UNCHANGED <<dbVars, node>>
    /\ UNCHANGED <<fnVars, legacyVars, callVars>>

\* finally: client.close(), then the node returns or the exception propagates
NodeFinally(w) ==
    /\ npc[w] = "finally"
    /\ SyncClose(w)
    /\ npc' = [npc EXCEPT ![w] = IF nexc[w] = "" THEN "returned" ELSE "raised"]
    /\ UNCHANGED <<store, upc, uarg, uerr, uops, ufound, expected, all_ok, ncalls,
                   node, nwork, nexc>>
    /\ UNCHANGED <<fnVars, legacyVars, callVars>>

-----------------------------------------------------------------------------
(* src/rel_mod_old/database/client.py: SurrealClient *)

\* lines 32-52: connect
LegacyConnect ==
    \/ \* Surreal(self.config.url) raises
       /\ lexc' = "DatabaseConnectionError"
       /\ UNCHANGED <<legacy_db, legacy_connected>>
    \/ \* self.db.signin or self.db.use raises
       /\ legacy_db' = "Surreal"
       /\ lexc' = "DatabaseConnectionError"
       /\ UNCHANGED legacy_connected
    \/ /\ legacy_db' = "Surreal"
       /\ legacy_connected' = TRUE
       /\ lexc' = ""

\* lines 54-62: close
LegacyClose ==
    IF legacy_db # "None" /\ legacy_connected
    THEN \/ \* self.db.close() returns
            /\ legacy_connected' = FALSE
            /\ UNCHANGED legacy_db
         \/ \* self.db.close() raises: the warning is logged, nothing is raised
            UNCHANGED <<legacy_db, legacy_connected>>
    ELSE UNCHANGED <<legacy_db, legacy_connected>>

-----------------------------------------------------------------------------
(* src/rel_mod_old/main.py: GraphTraversalPipeline.run and main *)

\* utils/exceptions.py: the subclasses of GraphTraversalException
GraphTraversalExceptions == {"DatabaseConnectionError", "QueryExecutionError",
                             "ConceptResolutionError", "FileProcessingError",
                             "DataValidationError", "ConfigurationError"}

\* services/concept_service.py line 196
get_concept_ids(concept_names, id_map) ==
    SelectSeq(concept_names, LAMBDA name : name \in id_map)

\* a step of run raises exc
RunRaises(exc) ==
    /\ lexc' = exc
    /\ lpc' = "except"

\* a return statement of run: the finally block is next
RunReturns(value, how) ==
    /\ success' = value
    /\ outcome' = how
    /\ lpc' = "finally"

\* main.py lines 209-215: the configuration and the pipeline are built
MainBuild ==
    /\ lpc = "main"
    /\ \/ /\ lpc' = "load"
          /\ UNCHANGED <<exit_code, outcome>>
       \/ \* lines 220-223: except Exception: sys.exit(1)
          /\ lpc' = "exited"
          /\ exit_code' = 1
          /\ outcome' = "build_failed"
    /\ UNCHANGED <<legacy_db, legacy_connected, source_concepts, target_concepts,
                   source_ids, target_ids, results, lexc, success>>
    /\ UNCHANGED <<fnVars, dbVars, nodeVars, callVars>>

\* main.py lines 66-70: step 1, load the input data
RunLoadInput(names) ==
    /\ lpc = "load"
    /\ \/ \E src \in SeqsUpTo(names, MaxConcepts), tgt \in SeqsUpTo(names, MaxConcepts) :
             /\ source_concepts' = src
             /\ target_concepts' = tgt
             /\ IF src = <<>> \/ tgt = <<>>
                THEN RunReturns("False", "empty_input")
                ELSE /\ lpc' = "connect"
                     /\ UNCHANGED <<success, outcome>>
             /\ UNCHANGED lexc
       \/ /\ \E exc \in {"FileProcessingError", "DataValidationError", "Exception"} :
                RunRaises(exc)
          /\ UNCHANGED <<source_concepts, target_concepts, success, outcome>>
    /\ UNCHANGED <<legacy_db, legacy_connected, source_ids, target_ids, results, exit_code>>
    /\ UNCHANGED <<fnVars, dbVars, nodeVars, callVars>>

\* main.py line 74: step 2, connect
RunConnect ==
    /\ lpc = "connect"
    /\ LegacyConnect
    /\ lpc' = IF lexc' = "" THEN "resolve" ELSE "except"
    /\ UNCHANGED <<source_concepts, target_concepts, source_ids, target_ids, results,
                   success, exit_code, outcome>>
    /\ UNCHANGED <<fnVars, dbVars, nodeVars, callVars>>

\* main.py lines 78-85: step 3, resolve the names to ids
RunResolve(names) ==
    /\ lpc = "resolve"
    /\ \/ \E id_map \in SUBSET names :
             /\ source_ids' = get_concept_ids(source_concepts, id_map)
             /\ target_ids' = get_concept_ids(target_concepts, id_map)
             /\ IF source_ids' = <<>> \/ target_ids' = <<>>
                THEN RunReturns("False", "unresolved")
                ELSE /\ lpc' = "traverse"
                     /\ UNCHANGED <<success, outcome>>
             /\ UNCHANGED lexc
       \/ /\ RunRaises("ConceptResolutionError")
          /\ UNCHANGED <<source_ids, target_ids, success, outcome>>
    /\ UNCHANGED <<legacy_db, legacy_connected, source_concepts, target_concepts, results,
                   exit_code>>
    /\ UNCHANGED <<fnVars, dbVars, nodeVars, callVars>>

\* main.py line 96: return True when there are no results
ReturnOnNoPaths_Failure == "False"
ReturnOnNoPaths == "True"

\* main.py lines 92-96: step 4, the traversal
RunTraverse ==
    /\ lpc = "traverse"
    /\ \/ \E n \in 0..MaxResults :
             /\ results' = n
             /\ IF n = 0
                THEN RunReturns(ReturnOnNoPaths, "no_paths")
                ELSE /\ lpc' = "save"
                     /\ UNCHANGED <<success, outcome>>
             /\ UNCHANGED lexc
       \/ /\ \E exc \in {"QueryExecutionError", "DataValidationError"} : RunRaises(exc)
          /\ UNCHANGED <<results, success, outcome>>
    /\ UNCHANGED <<legacy_db, legacy_connected, source_concepts, target_concepts,
                   source_ids, target_ids, exit_code>>
    /\ UNCHANGED <<fnVars, dbVars, nodeVars, callVars>>

\* main.py line 100: step 5, save the results
RunSave ==
    /\ lpc = "save"
    /\ \/ /\ lpc' = "statistics"
          /\ UNCHANGED lexc
       \/ RunRaises("FileProcessingError")
    /\ UNCHANGED <<legacy_db, legacy_connected, source_concepts, target_concepts,
                   source_ids, target_ids, results, success, exit_code, outcome>>
    /\ UNCHANGED <<fnVars, dbVars, nodeVars, callVars>>

\* main.py lines 104-110: step 6, display the statistics and return True
RunStatistics ==
    /\ lpc = "statistics"
    /\ \/ /\ RunReturns("True", "completed")
          /\ UNCHANGED lexc
       \/ /\ RunRaises("Exception")
          /\ UNCHANGED <<success, outcome>>
    /\ UNCHANGED <<legacy_db, legacy_connected, source_concepts, target_concepts,
                   source_ids, target_ids, results, exit_code>>
    /\ UNCHANGED <<fnVars, dbVars, nodeVars, callVars>>

\* main.py lines 112-114: except GraphTraversalException: return False
RunExceptGraphTraversal ==
    /\ lpc = "except"
    /\ lexc \in GraphTraversalExceptions
    /\ RunReturns("False", "pipeline_error")
    /\ UNCHANGED <<legacy_db, legacy_connected, source_concepts, target_concepts,
                   source_ids, target_ids, results, lexc, exit_code>>
    /\ UNCHANGED <<fnVars, dbVars, nodeVars, callVars>>

\* main.py lines 115-117: except Exception: return False
RunExceptUnexpected ==
    /\ lpc = "except"
    /\ lexc \notin GraphTraversalExceptions
    /\ RunReturns("False", "unexpected_error")
    /\ UNCHANGED <<legacy_db, legacy_connected, source_concepts, target_concepts,
                   source_ids, target_ids, results, lexc, exit_code>>
    /\ UNCHANGED <<fnVars, dbVars, nodeVars, callVars>>

\* main.py lines 118-119: finally: self.db_client.close(); run has returned
RunFinally ==
    /\ lpc = "finally"
    /\ LegacyClose
    /\ lpc' = "returned"
    /\ UNCHANGED <<source_concepts, target_concepts, source_ids, target_ids, results,
                   lexc, success, exit_code, outcome>>
    /\ UNCHANGED <<fnVars, dbVars, nodeVars, callVars>>

\* main.py line 218: sys.exit(0 if success else 1)
ExitCode(ok) == IF ok = "True" THEN 0 ELSE 1

MainExit ==
    /\ lpc = "returned"
    /\ exit_code' = ExitCode(success)
    /\ lpc' = "exited"
    /\ UNCHANGED <<legacy_db, legacy_connected, source_concepts, target_concepts,
                   source_ids, target_ids, results, lexc, success, outcome>>
    /\ UNCHANGED <<fnVars, dbVars, nodeVars, callVars>>

-----------------------------------------------------------------------------
(* Inputs *)

\* (relationship_id, weight) as the relationship mapper pairs them
StructuralKind == <<"is_a", Rat(8, 10)>>
ClinicalKind == <<"associated_with", Rat(5, 10)>>

EdgesInto(targets, kinds) == {<<t, k[1], k[2]>> : t \in targets, k \in kinds}
EdgesOf(kinds) == EdgesInto(Concepts, kinds)

\* the relationship maps keyed within cs that hold at most budget tuples
RECURSIVE MapsOver(_, _, _)
MapsOver(cs, budget, kinds) ==
    IF cs = {} THEN {EmptyMap}
    ELSE LET c == CHOOSE x \in cs : TRUE
         IN  MapsOver(cs \ {c}, budget, kinds)
             \cup UNION {{Put(m, c, l) : m \in MapsOver(cs \ {c}, budget - Len(l), kinds)} :
                           l \in SeqsUpTo(EdgesOf(kinds), budget)}

RelationshipMaps(kinds) == MapsOver(Concepts, MaxEdges, kinds)

InitFnDefaults ==
    /\ InitRest
    /\ ancestor_map = EmptyMap
    /\ graph_paths = EmptyMap
    /\ concept_embedding = <<>>
    /\ domain_cluster_centroid = <<>>
    /\ source_authority = RZero
    /\ fn = ""
    /\ ret = 0

\* Concept ids are only hashed and compared for equality, so every input is a
\* renaming of one whose start is StartConcept and whose other cluster members
\* are the first of the remaining concepts.
StartConcept == CHOOSE c \in Concepts : \A d \in Concepts : c <= d

ClusterShapes ==
    {withStart \cup {d \in Concepts \ {StartConcept} : d <= k} :
        withStart \in SUBSET {StartConcept}, k \in Concepts}

\* rel_type and weight are not read by find_paths_3hop or calculate_path_density
InitPaths ==
    /\ relationship_map \in RelationshipMaps({StructuralKind})
    /\ concept_id = StartConcept
    /\ domain_cluster \in ClusterShapes
    /\ max_hops \in 0..MaxHopsArg
    /\ InitFnDefaults

UnchangedInputs ==
    UNCHANGED <<concept_id, domain_cluster, relationship_map, max_hops, ancestor_map,
                graph_paths, concept_embedding, domain_cluster_centroid,
                source_authority, dbVars, nodeVars, legacyVars, callVars>>

Call_find_paths_3hop ==
    /\ fn = ""
    /\ fn' = "find_paths_3hop"
    /\ ret' = find_paths_3hop(concept_id, domain_cluster, relationship_map, max_hops)
    /\ UnchangedInputs

\* calculate_path_density called with max_hops left at its default
Call_calculate_path_density ==
    /\ fn = ""
    /\ max_hops = DefaultMaxHops
    /\ fn' = "calculate_path_density"
    /\ ret' = calculate_path_density(concept_id, domain_cluster, relationship_map,
                                     DefaultMaxHops)
    /\ UnchangedInputs

NextPaths ==
    \/ Call_find_paths_3hop
    \/ Call_calculate_path_density

SpecPaths == InitPaths /\ [][NextPaths]_vars

InitWeighted ==
    /\ relationship_map \in RelationshipMaps({StructuralKind, ClinicalKind})
    /\ concept_id = StartConcept
    /\ domain_cluster \in SUBSET (Concepts \ {StartConcept})
    /\ max_hops \in 0..MaxHopsArg
    /\ InitFnDefaults

Call_find_paths_with_weights ==
    /\ fn = ""
    /\ fn' = "find_paths_with_weights"
    /\ ret' = find_paths_with_weights(concept_id, domain_cluster, relationship_map,
                                      max_hops)
    /\ UnchangedInputs

NextWeighted ==
    \/ Call_find_paths_with_weights

SpecWeighted == InitWeighted /\ [][NextWeighted]_vars

-----------------------------------------------------------------------------
(* calculate_s_struct on its own *)

EquivalenceKinds == {<<"mapped_from", ROne>>, <<"maps_to", ROne>>, <<"concept_same_as", ROne>>}
StructuralKinds == {<<"is_a", Rat(8, 10)>>, <<"isa", Rat(8, 10)>>, <<"subsumes", Rat(8, 10)>>}

\* build_ancestor_map over a set of (descendant, ancestor) records
AncestorMapOf(records) ==
    [d \in {r[1] : r \in records} |-> {r[2] : r \in {q \in records : q[1] = d}}]

RECURSIVE SubsetsUpTo(_, _)
SubsetsUpTo(S, n) ==
    IF n = 0 THEN {{}}
    ELSE LET smaller == SubsetsUpTo(S, n - 1)
         IN  smaller \cup {t \cup {e} : t \in smaller, e \in S}

AncestorMaps(pairs) == {AncestorMapOf(rs) : rs \in SubsetsUpTo(pairs, MaxAncestorRecords)}

\* calculate_s_struct reads the list of the concept alone, and of a tuple only
\* whether its target is in the cluster: the lists lead into two other concepts
StructTargets == {2, 3}

\* the relationship maps that hold at most the list of c
OwnListMaps(c, n, kinds) ==
    {EmptyMap} \cup {Put(EmptyMap, c, l) : l \in SeqsUpTo(EdgesInto(StructTargets, kinds), n)}

\* the ancestor records that name the concept, and one that does not
StructAncestorRecords ==
    ({StartConcept} \X Concepts) \cup (Concepts \X {StartConcept}) \cup {<<2, 3>>}

InitStruct ==
    /\ InitRest
    /\ relationship_map \in OwnListMaps(StartConcept, MaxStructOut,
                                        EquivalenceKinds \cup StructuralKinds \cup {ClinicalKind})
    /\ ancestor_map \in AncestorMaps(StructAncestorRecords)
    /\ concept_id = StartConcept
    /\ domain_cluster \in SUBSET Concepts
    /\ max_hops = DefaultMaxHops
    /\ graph_paths = EmptyMap
    /\ concept_embedding = <<>>
    /\ domain_cluster_centroid = <<>>
    /\ source_authority = RZero
    /\ fn = ""
    /\ ret = 0

Call_calculate_s_struct ==
    /\ fn = ""
    /\ fn' = "calculate_s_struct"
    /\ ret' = calculate_s_struct(concept_id, domain_cluster, relationship_map, ancestor_map)
    /\ UnchangedInputs

NextStruct ==
    \/ Call_calculate_s_struct

SpecStruct == InitStruct /\ [][NextStruct]_vars

-----------------------------------------------------------------------------
(* calculate_s_density on its own: one call, then calls on hop maps in     *)
(* which one recorded hop count has grown by one                           *)

HopMaps(keysets, maxhop) == UNION {[keys -> 0..maxhop] : keys \in keysets}

InitDensity ==
    /\ InitRest
    /\ graph_paths \in {EmptyMap}
                       \cup {Put(EmptyMap, StartConcept, h) :
                               h \in HopMaps(SUBSET Concepts, MaxHopCount)}
    /\ concept_id = StartConcept
    /\ domain_cluster \in SUBSET Concepts
    /\ max_hops = DefaultMaxHops
    /\ relationship_map = EmptyMap
    /\ ancestor_map = EmptyMap
    /\ concept_embedding = <<>>
    /\ domain_cluster_centroid = <<>>
    /\ source_authority = RZero
    /\ fn = ""
    /\ ret = 0

Call_calculate_s_density ==
    /\ fn = ""
    /\ fn' = "calculate_s_density"
    /\ ret' = calculate_s_density(concept_id, domain_cluster, graph_paths)
    /\ UnchangedInputs

\* the same call after the recorded hop count of cluster member m grew by one
Recall_calculate_s_density ==
    /\ fn = "calculate_s_density"
    /\ concept_id \in DOMAIN graph_paths
    /\ \E m \in domain_cluster \cap DOMAIN graph_paths[concept_id] :
          /\ graph_paths[concept_id][m] < MaxHopCount
          /\ graph_paths' = [graph_paths EXCEPT ![concept_id][m] = @ + 1]
    /\ ret' = calculate_s_density(concept_id, domain_cluster, graph_paths')
    /\ UNCHANGED <<concept_id, domain_cluster, relationship_map, max_hops, ancestor_map,
                   concept_embedding, domain_cluster_centroid, source_authority, fn,
                   dbVars, nodeVars, legacyVars, callVars>>

NextDensity ==
    \/ Call_calculate_s_density
    \/ Recall_calculate_s_density

SpecDensity == InitDensity /\ [][NextDensity]_vars

-----------------------------------------------------------------------------
(* RelevanceScorer.calculate_relevance with the default weights *)

EmbeddingVectors ==
    {<<>>, <<RInt(1), RInt(0)>>, <<RInt(0), RInt(1)>>, <<RInt(-1), RInt(0)>>,
     <<RInt(1), RInt(1)>>}

CentroidVectors == {<<>>, <<RInt(1), RInt(0)>>, <<RInt(1), RInt(1)>>}

\* source authorities: the vocabulary authority scores lie in [0, 1]
Authorities == {RZero, Rat(7, 10), ROne}

InitRelevance ==
    /\ InitRest
    /\ relationship_map \in {EmptyMap, Put(EmptyMap, StartConcept, <<>>)}
    /\ ancestor_map \in {EmptyMap} \cup {AncestorMapOf({<<StartConcept, a>>}) : a \in Concepts}
    /\ graph_paths \in {EmptyMap}
                       \cup {Put(EmptyMap, StartConcept, h) :
                               h \in HopMaps({{}} \cup {{m} : m \in Concepts},
                                             DefaultMaxHops)}
    /\ concept_embedding \in EmbeddingVectors
    /\ domain_cluster_centroid \in CentroidVectors
    /\ source_authority \in Authorities
    /\ concept_id = StartConcept
    /\ domain_cluster \in SUBSET Concepts
    /\ max_hops = DefaultMaxHops
    /\ fn = ""
    /\ ret = 0

Call_calculate_relevance ==
    /\ fn = ""
    /\ fn' = "calculate_relevance"
    /\ ret' = calculate_relevance(concept_id, domain_cluster, relationship_map,
                                  ancestor_map, concept_embedding,
                                  domain_cluster_centroid, graph_paths, source_authority)
    /\ UnchangedInputs

NextRelevance ==
    \/ Call_calculate_relevance

SpecRelevance == InitRelevance /\ [][NextRelevance]_vars

-----------------------------------------------------------------------------
(* One client used directly: connect, close and upsert calls in any order *)

InitFnUnused ==
    /\ concept_id = StartConcept
    /\ domain_cluster = {}
    /\ relationship_map = EmptyMap
    /\ max_hops = DefaultMaxHops
    /\ ancestor_map = EmptyMap
    /\ graph_paths = EmptyMap
    /\ concept_embedding = <<>>
    /\ domain_cluster_centroid = <<>>
    /\ source_authority = RZero
    /\ fn = ""
    /\ ret = 0

Tables == {"concept", "metric"}
RecordIds == {"1", "2"}
RecordData == {"a", "b"}

TheClient == "w1"

InitUpsert == InitRest /\ InitFnUnused

CallConnect ==
    /\ UpsertIdle(TheClient)
    /\ ClientConnect(TheClient)
    /\ UNCHANGED <<store, sync_connected, upc, uarg, uops, ufound, expected, all_ok, ncalls>>
    /\ UNCHANGED <<fnVars, nodeVars, legacyVars, callVars>>

CallClose ==
    /\ UpsertIdle(TheClient)
    /\ ClientClose(TheClient)
    /\ UNCHANGED <<store, sync_connected, upc, uarg, uerr, uops, ufound, expected, all_ok,
                   ncalls>>
    /\ UNCHANGED <<fnVars, nodeVars, legacyVars, callVars>>

CallUpsert ==
    /\ \E table \in Tables, record_id \in RecordIds, data \in RecordData :
          UpsertBegin(TheClient, table, record_id, data)
    /\ UNCHANGED <<fnVars, nodeVars, legacyVars, callVars>>

NextUpsert ==
    \/ CallConnect
    \/ CallClose
    \/ CallUpsert
    \/ UpsertSelect(TheClient)
    \/ UpsertUpdate(TheClient)
    \/ UpsertCreate(TheClient)

SpecUpsert == InitUpsert /\ [][NextUpsert]_vars

-----------------------------------------------------------------------------
(* One orchestration node run from start to end *)

\* raw_ingest.py lines 218-234: the three loops of surreal_ingest_reference_tables
ReferenceTablePrograms ==
    LET lists == SeqsUpTo(RecordIds, MaxUpserts)
    IN  {UpsertLoop("vocabulary", v) \o UpsertLoop("domain", d) \o UpsertLoop("relationship", r) :
            <<v, d, r>> \in {t \in lists \X lists \X lists :
                                Len(t[1]) + Len(t[2]) + Len(t[3]) <= MaxUpserts}}

NodePrograms(n) ==
    IF n = "audit_report" THEN {AuditProgram}
    ELSE IF n = "surreal_ingest_reference_tables" THEN ReferenceTablePrograms
    ELSE {UpsertLoop(NodeTable(n), records) : records \in SeqsUpTo(RecordIds, MaxUpserts)}

InitNode ==
    /\ InitDb
    /\ InitLegacyUnused
    /\ InitFnUnused
    /\ InitCallUnused
    /\ \E n \in DbNodes : \E program \in NodePrograms(n) :
          /\ node = [w \in Clients |-> IF w = TheClient THEN n ELSE ""]
          /\ nwork = [w \in Clients |-> IF w = TheClient THEN program ELSE <<>>]
    /\ npc = [w \in Clients |-> IF w = TheClient THEN "start" ELSE "unused"]
    /\ nexc = [w \in Clients |-> ""]

NextNode ==
    \/ NodeConnect(TheClient)
    \/ NodeLoopEnd(TheClient)
    \/ NodeLoopUpsert(TheClient)
    \/ UpsertSelect(TheClient)
    \/ UpsertUpdate(TheClient)
    \/ UpsertCreate(TheClient)
    \/ NodeUpsertDone(TheClient)
    \/ NodeQuery(TheClient)
    \/ NodeLocal(TheClient)
    \/ NodeFinally(TheClient)

SpecNode == InitNode /\ [][NextNode]_vars

-----------------------------------------------------------------------------
(* The legacy orchestrator run once *)

ConceptNames == {"aspirin", "fever"}

InitLegacy ==
    /\ InitDb
    /\ InitNodeUnused
    /\ InitFnUnused
    /\ InitCallUnused
    /\ lpc = "main"
    /\ legacy_db = "None"
    /\ legacy_connected = FALSE
    /\ source_concepts = <<>>
    /\ target_concepts = <<>>
    /\ source_ids = <<>>
    /\ target_ids = <<>>
    /\ results = 0
    /\ lexc = ""
    /\ success = "None"
    /\ exit_code = -1
    /\ outcome = ""

NextLegacy ==
    \/ MainBuild
    \/ RunLoadInput(ConceptNames)
    \/ RunConnect
    \/ RunResolve(ConceptNames)
    \/ RunTraverse
    \/ RunSave
    \/ RunStatistics
    \/ RunExceptGraphTraversal
    \/ RunExceptUnexpected
    \/ RunFinally
    \/ MainExit

SpecLegacy == InitLegacy /\ [][NextLegacy]_vars

-----------------------------------------------------------------------------
(* Python strings: a str is the sequence of its characters *)

LowerLetters == <<"a", "b", "c", "d", "e", "f", "g", "h", "i", "j", "k", "l", "m", "n", "o", "p", "q", "r", "s", "t", "u", "v", "w", "x", "y", "z">>
UpperLetters == <<"A", "B", "C", "D", "E", "F", "G", "H", "I", "J", "K", "L", "M", "N", "O", "P", "Q", "R", "S", "T", "U", "V", "W", "X", "Y", "Z">>

\* str.upper() and str.lower() on ASCII text: letters of `from` become those of `to`
CaseMap(from, to, s) ==
    [i \in 1..Len(s) |->
        IF \E k \in 1..Len(from) : from[k] = s[i]
        THEN to[CHOOSE k \in 1..Len(from) : from[k] = s[i]]
        ELSE s[i]]

str_upper_AsIs(s) == s
str_upper(s) == CaseMap(LowerLetters, UpperLetters, s)

str_lower_AsIs(s) == s
str_lower(s) == CaseMap(UpperLetters, LowerLetters, s)

Whitespace == {" ", "\t", "\n"}

\* str.strip(): leading and trailing whitespace removed
str_strip(s) ==
    LET inner == {i \in 1..Len(s) : s[i] \notin Whitespace}
    IN  IF inner = {} THEN <<>>
        ELSE SubSeq(s, CHOOSE i \in inner : \A j \in inner : i <= j,
                       CHOOSE i \in inner : \A j \in inner : j <= i)

\* pat in s
Contains(pat, s) ==
    \E i \in 1..(Len(s) - Len(pat) + 1) : SubSeq(s, i, i + Len(pat) - 1) = pat

-----------------------------------------------------------------------------
(* src/src/features/authority.py *)

\* lines 7-21
VocabularyAuthorityKeys ==
    {<<"S", "N", "O", "M", "E", "D">>,
     <<"I", "C", "D", "1", "0", "C", "M">>,
     <<"I", "C", "D", "1", "0">>,
     <<"L", "O", "I", "N", "C">>,
     <<"R", "x", "N", "o", "r", "m">>,
     <<"I", "C", "D", "9", "C", "M">>,
     <<"C", "P", "T", "4">>,
     <<"H", "C", "P", "C", "S">>,
     <<"A", "T", "C">>,
     <<"N", "D", "C">>,
     <<"U", "C", "U", "M">>,
     <<"O", "M", "O", "P", " ", "E", "x", "t", "e", "n", "s", "i", "o", "n">>,
     <<"O", "M", "O", "P", " ", "G", "e", "n", "o", "m", "i", "c">>}

VOCABULARY_AUTHORITY(s) ==
    CASE s = <<"S", "N", "O", "M", "E", "D">> -> ROne
      [] s = <<"I", "C", "D", "1", "0", "C", "M">> -> Rat(9, 10)
      [] s = <<"I", "C", "D", "1", "0">> -> Rat(9, 10)
      [] s = <<"L", "O", "I", "N", "C">> -> Rat(8, 10)
      [] s = <<"R", "x", "N", "o", "r", "m">> -> Rat(8, 10)
      [] s = <<"I", "C", "D", "9", "C", "M">> -> Rat(7, 10)
      [] s = <<"C", "P", "T", "4">> -> Rat(7, 10)
      [] s = <<"H", "C", "P", "C", "S">> -> Rat(7, 10)
      [] s = <<"A", "T", "C">> -> Rat(7, 10)
      [] s = <<"N", "D", "C">> -> Rat(6, 10)
      [] s = <<"U", "C", "U", "M">> -> Rat(6, 10)
      [] s = <<"O", "M", "O", "P", " ", "E", "x", "t", "e", "n", "s", "i", "o", "n">> -> Rat(5, 10)
      [] s = <<"O", "M", "O", "P", " ", "G", "e", "n", "o", "m", "i", "c">> -> Rat(5, 10)

\* lines 24-54
get_vocabulary_authority(vocabulary_id) ==
    IF vocabulary_id \in VocabularyAuthorityKeys
    THEN VOCABULARY_AUTHORITY(vocabulary_id)
    ELSE LET vocabulary_upper == str_upper(vocabulary_id)
         IN  IF Contains(<<"S", "N", "O", "M", "E", "D">>, vocabulary_upper) THEN ROne
             ELSE IF Contains(<<"I", "C", "D", "1", "0">>, vocabulary_upper) THEN Rat(9, 10)
             ELSE IF Contains(<<"L", "O", "I", "N", "C">>, vocabulary_upper) THEN Rat(8, 10)
             ELSE IF Contains(<<"R", "X", "N", "O", "R", "M">>, vocabulary_upper)
                     \/ Contains(<<"R", "X">>, vocabulary_upper) THEN Rat(8, 10)
             ELSE IF Contains(<<"I", "C", "D", "9">>, vocabulary_upper) THEN Rat(7, 10)
             ELSE IF Contains(<<"C", "P", "T">>, vocabulary_upper)
                     \/ Contains(<<"H", "C", "P", "C", "S">>, vocabulary_upper) THEN Rat(7, 10)
             ELSE Rat(5, 10)

-----------------------------------------------------------------------------
(* src/src/transformers/relationship_mapper.py *)

\* lines 7-30 and 34-57: the keys of both tables
RelationshipKeys ==
    {<<"m", "a", "p", "p", "e", "d", "_", "f", "r", "o", "m">>,
     <<"c", "o", "n", "c", "e", "p", "t", "_", "s", "a", "m", "e", "_", "a", "s">>,
     <<"m", "a", "p", "s", "_", "t", "o">>,
     <<"i", "s", "_", "a">>,
     <<"s", "u", "b", "s", "u", "m", "e", "s">>,
     <<"i", "s", "a">>,
     <<"h", "a", "s", "_", "f", "i", "n", "d", "i", "n", "g", "_", "s", "i", "t", "e">>,
     <<"d", "u", "e", "_", "t", "o">>,
     <<"c", "a", "u", "s", "e", "d", "_", "b", "y">>,
     <<"a", "s", "s", "o", "c", "i", "a", "t", "e", "d", "_", "w", "i", "t", "h">>,
     <<"h", "a", "s", "_", "d", "o", "s", "e", "_", "f", "o", "r", "m">>,
     <<"h", "a", "s", "_", "i", "n", "g", "r", "e", "d", "i", "e", "n", "t">>,
     <<"m", "a", "p", "p", "e", "d", "_", "t", "o">>,
     <<"c", "o", "n", "c", "e", "p", "t", "_", "r", "e", "p", "l", "a", "c", "e", "d", "_", "b", "y">>,
     <<"r", "e", "p", "l", "a", "c", "e", "d", "_", "b", "y">>}

\* lines 7-30
RELATIONSHIP_WEIGHTS(s) ==
    CASE s = <<"m", "a", "p", "p", "e", "d", "_", "f", "r", "o", "m">> -> ROne
      [] s = <<"c", "o", "n", "c", "e", "p", "t", "_", "s", "a", "m", "e", "_", "a", "s">> -> ROne
      [] s = <<"m", "a", "p", "s", "_", "t", "o">> -> ROne
      [] s = <<"i", "s", "_", "a">> -> Rat(8, 10)
      [] s = <<"s", "u", "b", "s", "u", "m", "e", "s">> -> Rat(8, 10)
      [] s = <<"i", "s", "a">> -> Rat(8, 10)
      [] s = <<"h", "a", "s", "_", "f", "i", "n", "d", "i", "n", "g", "_", "s", "i", "t", "e">> -> Rat(5, 10)
      [] s = <<"d", "u", "e", "_", "t", "o">> -> Rat(5, 10)
      [] s = <<"c", "a", "u", "s", "e", "d", "_", "b", "y">> -> Rat(5, 10)
      [] s = <<"a", "s", "s", "o", "c", "i", "a", "t", "e", "d", "_", "w", "i", "t", "h">> -> Rat(5, 10)
      [] s = <<"h", "a", "s", "_", "d", "o", "s", "e", "_", "f", "o", "r", "m">> -> Rat(5, 10)
      [] s = <<"h", "a", "s", "_", "i", "n", "g", "r", "e", "d", "i", "e", "n", "t">> -> Rat(5, 10)
      [] s = <<"m", "a", "p", "p", "e", "d", "_", "t", "o">> -> Rat(3, 10)
      [] s = <<"c", "o", "n", "c", "e", "p", "t", "_", "r", "e", "p", "l", "a", "c", "e", "d", "_", "b", "y">> -> Rat(3, 10)
      [] s = <<"r", "e", "p", "l", "a", "c", "e", "d", "_", "b", "y">> -> Rat(3, 10)

\* lines 34-57
RELATIONSHIP_CATEGORIES(s) ==
    CASE s = <<"m", "a", "p", "p", "e", "d", "_", "f", "r", "o", "m">> -> "equivalence"
      [] s = <<"c", "o", "n", "c", "e", "p", "t", "_", "s", "a", "m", "e", "_", "a", "s">> -> "equivalence"
      [] s = <<"m", "a", "p", "s", "_", "t", "o">> -> "equivalence"
      [] s = <<"i", "s", "_", "a">> -> "structural"
      [] s = <<"s", "u", "b", "s", "u", "m", "e", "s">> -> "structural"
      [] s = <<"i", "s", "a">> -> "structural"
      [] s = <<"h", "a", "s", "_", "f", "i", "n", "d", "i", "n", "g", "_", "s", "i", "t", "e">> -> "clinical"
      [] s = <<"d", "u", "e", "_", "t", "o">> -> "clinical"
      [] s = <<"c", "a", "u", "s", "e", "d", "_", "b", "y">> -> "clinical"
      [] s = <<"a", "s", "s", "o", "c", "i", "a", "t", "e", "d", "_", "w", "i", "t", "h">> -> "clinical"
      [] s = <<"h", "a", "s", "_", "d", "o", "s", "e", "_", "f", "o", "r", "m">> -> "clinical"
      [] s = <<"h", "a", "s", "_", "i", "n", "g", "r", "e", "d", "i", "e", "n", "t">> -> "clinical"
      [] s = <<"m", "a", "p", "p", "e", "d", "_", "t", "o">> -> "meta"
      [] s = <<"c", "o", "n", "c", "e", "p", "t", "_", "r", "e", "p", "l", "a", "c", "e", "d", "_", "b", "y">> -> "meta"
      [] s = <<"r", "e", "p", "l", "a", "c", "e", "d", "_", "b", "y">> -> "meta"

\* lines 60-94
get_relationship_weight(relationship_id) ==
    LET normalized == str_strip(str_lower(relationship_id))
    IN  IF normalized \in RelationshipKeys THEN RELATIONSHIP_WEIGHTS(normalized)
        ELSE IF Contains(<<"m", "a", "p">>, normalized) /\ Contains(<<"f", "r", "o", "m">>, normalized) THEN ROne
        ELSE IF Contains(<<"s", "a", "m", "e">>, normalized) \/ Contains(<<"e", "q", "u", "i", "v", "a", "l", "e", "n", "t">>, normalized) THEN ROne
        ELSE IF Contains(<<"i", "s", "_", "a">>, normalized) \/ Contains(<<"i", "s", "a">>, normalized) THEN Rat(8, 10)
        ELSE IF Contains(<<"s", "u", "b", "s", "u", "m">>, normalized) \/ Contains(<<"p", "a", "r", "e", "n", "t">>, normalized) THEN Rat(8, 10)
        ELSE IF Contains(<<"f", "i", "n", "d", "i", "n", "g">>, normalized) \/ Contains(<<"s", "i", "t", "e">>, normalized) THEN Rat(5, 10)
        ELSE IF Contains(<<"d", "u", "e">>, normalized) \/ Contains(<<"c", "a", "u", "s", "e">>, normalized) THEN Rat(5, 10)
        ELSE IF Contains(<<"r", "e", "p", "l", "a", "c", "e">>, normalized) THEN Rat(3, 10)
        ELSE Rat(3, 10)

\* lines 97-129
get_relationship_category(relationship_id) ==
    LET normalized == str_strip(str_lower(relationship_id))
    IN  IF normalized \in RelationshipKeys THEN RELATIONSHIP_CATEGORIES(normalized)
        ELSE IF Contains(<<"m", "a", "p">>, normalized) /\ Contains(<<"f", "r", "o", "m">>, normalized) THEN "equivalence"
        ELSE IF Contains(<<"s", "a", "m", "e">>, normalized) \/ Contains(<<"e", "q", "u", "i", "v", "a", "l", "e", "n", "t">>, normalized) THEN "equivalence"
        ELSE IF Contains(<<"i", "s", "_", "a">>, normalized) \/ Contains(<<"i", "s", "a">>, normalized) THEN "structural"
        ELSE IF Contains(<<"s", "u", "b", "s", "u", "m">>, normalized) \/ Contains(<<"p", "a", "r", "e", "n", "t">>, normalized) THEN "structural"
        ELSE IF Contains(<<"f", "i", "n", "d", "i", "n", "g">>, normalized) \/ Contains(<<"s", "i", "t", "e">>, normalized)
                \/ Contains(<<"d", "u", "e">>, normalized) \/ Contains(<<"c", "a", "u", "s", "e">>, normalized) THEN "clinical"
        ELSE IF Contains(<<"r", "e", "p", "l", "a", "c", "e">>, normalized) THEN "meta"
        ELSE "meta"

-----------------------------------------------------------------------------
(* Calls of the vocabulary and relationship lookups *)

\* the strings made of up to n of the words
RECURSIVE Phrases(_, _)
Phrases(words, n) ==
    IF n = 0 THEN {<<>>}
    ELSE LET shorter == Phrases(words, n - 1)
         IN  shorter \cup {p \o w : p \in shorter, w \in words}

VocabularyWords ==
    VocabularyAuthorityKeys \cup
    {<<"s", "n", "o", "m", "e", "d">>,
     <<"S", "n", "o", "m", "e", "d">>,
     <<"i", "c", "d", "1", "0">>,
     <<"L", "o", "i", "n", "c">>,
     <<"r", "x", "n", "o", "r", "m">>,
     <<"R", "x">>,
     <<"i", "c", "d", "9">>,
     <<"C", "p", "t">>,
     <<"h", "c", "p", "c", "s">>,
     <<"M", "e", "S", "H">>,
     <<" ">>,
     <<"x">>}

RelationshipWords ==
    RelationshipKeys \cup
    {<<"I", "S", "_", "A">>,
     <<" ", "i", "s", "_", "a", " ">>,
     <<"M", "a", "p">>,
     <<"f", "r", "o", "m">>,
     <<"S", "a", "m", "e">>,
     <<"e", "q", "u", "i", "v", "a", "l", "e", "n", "t">>,
     <<"s", "u", "b", "s", "u", "m">>,
     <<"p", "a", "r", "e", "n", "t">>,
     <<"f", "i", "n", "d", "i", "n", "g">>,
     <<"s", "i", "t", "e">>,
     <<"c", "a", "u", "s", "e">>,
     <<"r", "e", "p", "l", "a", "c", "e">>,
     <<"f", "o", "o", "_", "b", "a", "r">>,
     <<" ">>,
     <<"_", "x">>}

InitCall(inputs) ==
    /\ InitDb /\ InitNodeUnused /\ InitLegacyUnused /\ InitFnUnused
    /\ input \in inputs
    /\ obj = <<>>

\* a call of a function that only reads its arguments
Returns(name, value) ==
    /\ fn = ""
    /\ fn' = name
    /\ ret' = value
    /\ UNCHANGED <<concept_id, domain_cluster, relationship_map, max_hops, ancestor_map,
                   graph_paths, concept_embedding, domain_cluster_centroid,
                   source_authority, dbVars, nodeVars, legacyVars, callVars>>

InitAuthority ==
    InitCall({[vocabulary_id |-> s] : s \in Phrases(VocabularyWords, MaxWords)})

Call_get_vocabulary_authority ==
    Returns("get_vocabulary_authority", get_vocabulary_authority(input.vocabulary_id))

NextAuthority == Call_get_vocabulary_authority

SpecAuthority == InitAuthority /\ [][NextAuthority]_vars

InitRelationship ==
    InitCall({[relationship_id |-> s] : s \in Phrases(RelationshipWords, MaxWords)})

Call_get_relationship_weight ==
    Returns("get_relationship_weight", get_relationship_weight(input.relationship_id))

Call_get_relationship_category ==
    Returns("get_relationship_category", get_relationship_category(input.relationship_id))

NextRelationship ==
    \/ Call_get_relationship_weight
    \/ Call_get_relationship_category

SpecRelationship == InitRelationship /\ [][NextRelationship]_vars

-----------------------------------------------------------------------------
(* src/src/ingestion/cleaner.py: polars columns.  A cell is Null or holds a value. *)

Null == <<>>
Cell(value) == <<value>>

\* pl.col(...).is_null()
is_null(cell) == cell = Null

\* pl.col(...).str.strip_chars(): null stays null
str_strip_chars(cell) ==
    IF is_null(cell) THEN Null ELSE Cell(str_strip(cell[1]))

\* pl.col(...).fill_null(value)
fill_null(cell, value) ==
    IF is_null(cell) THEN Cell(value) ELSE cell

\* lines 57-60: with_columns
CleanedRow(row) ==
    [row EXCEPT !.relationship_id = fill_null(str_strip_chars(row.relationship_id), <<>>),
                !.invalid_reason = fill_null(str_strip_chars(row.invalid_reason), <<>>)]

\* lines 60-63: the filter, on the columns as rewritten by with_columns
InvalidReasonKept_All(row) == TRUE
InvalidReasonKept(row) ==
    is_null(row.invalid_reason) \/ row.invalid_reason = Cell(<<>>)

\* lines 47-63
clean_relationships(df) ==
    SelectSeq([i \in 1..Len(df) |-> CleanedRow(df[i])], InvalidReasonKept)

RelationshipIdCells == {Null, Cell(<<" ", "i", "s", "a">>)}

InvalidReasonCells ==
    {Null, Cell(<<>>), Cell(<<" ">>), Cell(<<"D">>), Cell(<<" ", "U", " ">>)}

RelationshipRows ==
    [concept_id_1 : 1..2, relationship_id : RelationshipIdCells,
     invalid_reason : InvalidReasonCells]

InitCleaner ==
    InitCall({[df |-> d] : d \in SeqsUpTo(RelationshipRows, MaxRows)})

Call_clean_relationships ==
    Returns("clean_relationships", clean_relationships(input.df))

NextCleaner == Call_clean_relationships

SpecCleaner == InitCleaner /\ [][NextCleaner]_vars

-----------------------------------------------------------------------------
(* src/src/ingestion/validator.py *)

\* set(df.select(column).collect()[column].to_list())
ColumnSet(df, column) == {df[i][column] : i \in 1..Len(df)}

\* lines 30, 38: rel_concept_n - concept_ids
MissingIds_Reversed(rel_ids, concept_ids) == concept_ids \ rel_ids
MissingIds(rel_ids, concept_ids) == rel_ids \ concept_ids

\* lines 32, 40: the f-string, kept as its two varying parts
ErrorMessage(count, column) == [found |-> count, column |-> column]

\* lines 7-42
validate_referential_integrity(df_relationships, df_concepts) ==
    LET concept_ids == ColumnSet(df_concepts, "concept_id")
        missing_1 == MissingIds(ColumnSet(df_relationships, "concept_id_1"), concept_ids)
        errors_1 == IF missing_1 # {}
                    THEN <<ErrorMessage(Cardinality(missing_1), "concept_id_1")>>
                    ELSE <<>>
        missing_2 == MissingIds(ColumnSet(df_relationships, "concept_id_2"), concept_ids)
        errors == IF missing_2 # {}
                  THEN Append(errors_1, ErrorMessage(Cardinality(missing_2), "concept_id_2"))
                  ELSE errors_1
    IN  <<Len(errors) = 0, errors>>

ConceptIds == 1..3

\* the rows of a concept table holding the ids, lowest first
RECURSIVE ConceptTable(_)
ConceptTable(ids) ==
    IF ids = {} THEN <<>>
    ELSE LET low == CHOOSE c \in ids : \A d \in ids : c <= d
         IN  <<[concept_id |-> low]>> \o ConceptTable(ids \ {low})

InitValidator ==
    InitCall({[df_relationships |-> r, df_concepts |-> ConceptTable(ids)] :
                 r \in SeqsUpTo([concept_id_1 : ConceptIds, concept_id_2 : ConceptIds], MaxRows),
                 ids \in SUBSET ConceptIds})

Call_validate_referential_integrity ==
    Returns("validate_referential_integrity",
            validate_referential_integrity(input.df_relationships, input.df_concepts))

NextValidator == Call_validate_referential_integrity

SpecValidator == InitValidator /\ [][NextValidator]_vars

-----------------------------------------------------------------------------
(* src/assets/audit_report.py: the counts and the coverage of the report *)

\* Python values of the two types that meet in the coverage expression
PyInt(n) == [type |-> "int", value |-> n]
PyDict(d) == [type |-> "dict", value |-> d]

\* "SELECT count() FROM <table> GROUP ALL" as answered through execute_query
\* (surreal_client.py lines 115-121): a list of rows, each row a dict with the
\* count; a table without records gives no row or a row counting 0, depending
\* on the server
CountRows(records, row_when_empty) ==
    IF records = 0 /\ ~row_when_empty THEN <<>>
    ELSE <<PyDict([count |-> records])>>

\* lines 32, 36, 40: result[0] if result else 0
FirstOrZero(result) ==
    IF result # <<>> THEN result[1] ELSE PyInt(0)

\* score_count / len(df_concept): defined on numbers only
TrueDivDefined(a) == a.type = "int"

\* line 72
coverage_percentage(score_count, total_concepts) ==
    IF total_concepts > 0
    THEN IF TrueDivDefined(score_count)
         THEN [value |-> RMul(RDiv(RInt(score_count.value), RInt(total_concepts)), RInt(100))]
         ELSE [raised |-> "TypeError"]
    ELSE [value |-> RZero]

\* lines 30-40 and 64-87, the queries answered: the summary of the report, or
\* the exception the coverage expression raises
audit_report(total_concepts, concepts, metrics, scores, row_when_empty) ==
    LET concept_count == FirstOrZero(CountRows(concepts, row_when_empty))
        metric_count == FirstOrZero(CountRows(metrics, row_when_empty))
        score_count == FirstOrZero(CountRows(scores, row_when_empty))
        coverage == coverage_percentage(score_count, total_concepts)
    IN  IF "raised" \in DOMAIN coverage THEN coverage
        ELSE [total_concepts |-> total_concepts,
              concepts_in_db |-> concept_count,
              concepts_with_metrics |-> metric_count,
              concepts_with_scores |-> score_count,
              coverage_percentage |-> coverage.value]

InitAudit ==
    InitCall({[total_concepts |-> t, metrics |-> m, scores |-> s, row_when_empty |-> e] :
                 t \in 0..MaxAuditConcepts, m \in {0, 1}, s \in 0..MaxAuditConcepts,
                 e \in BOOLEAN})

Call_audit_report ==
    Returns("audit_report",
            audit_report(input.total_concepts, input.total_concepts, input.metrics,
                         input.scores, input.row_when_empty))

NextAudit == Call_audit_report

SpecAudit == InitAudit /\ [][NextAudit]_vars

-----------------------------------------------------------------------------
(* src/src/database/surreal_client.py lines 223-239: select *)

\* lines 238-239: except: return None
SelectOnFault_Raises == [raised |-> "QueryExecutionError"]
SelectOnFault == [returned |-> NoRecord]

\* lines 223-239: the ways a call of select can end
select(w, record_id) ==
    IF NotConnected(w)
    THEN {[raised |-> "DatabaseConnectionError"]}
    ELSE {[returned |-> DriverSelect(store, record_id)], SelectOnFault}

CallSelect ==
    /\ UpsertIdle(TheClient)
    /\ \E table \in Tables, record_id \in RecordIds :
          /\ input' = [record_id |-> FullId(table, record_id)]
          /\ ret' \in select(TheClient, FullId(table, record_id))
    /\ fn' = "select"
    /\ UNCHANGED <<concept_id, domain_cluster, relationship_map, max_hops, ancestor_map,
                   graph_paths, concept_embedding, domain_cluster_centroid,
                   source_authority, obj, dbVars, nodeVars, legacyVars>>

NextSelect ==
    \/ CallConnect
    \/ CallClose
    \/ CallUpsert
    \/ UpsertSelect(TheClient)
    \/ UpsertUpdate(TheClient)
    \/ UpsertCreate(TheClient)
    \/ CallSelect

SpecSelect == InitUpsert /\ [][NextSelect]_vars

-----------------------------------------------------------------------------
(* src/src/database/schema.py: apply_schema *)

\* str.split(sep) for a separator of one character
RECURSIVE str_split(_, _)
str_split(s, sep) ==
    IF \E i \in 1..Len(s) : s[i] = sep
    THEN LET at == CHOOSE i \in 1..Len(s) : s[i] = sep /\ \A j \in 1..(i - 1) : s[j] # sep
         IN  <<SubSeq(s, 1, at - 1)>> \o str_split(SubSeq(s, at + 1, Len(s)), sep)
    ELSE <<s>>

\* str.startswith(prefix)
str_startswith(s, prefix) ==
    Len(s) >= Len(prefix) /\ SubSeq(s, 1, Len(prefix)) = prefix

\* line 36: if statement and not statement.startswith("--")
IsExecuted(statement) ==
    statement # <<>> /\ ~str_startswith(statement, <<"-", "-">>)

\* what client.query raises when it fails (surreal_client.py lines 112-113, 122-123)
QueryFaults == {"DatabaseConnectionError", "QueryExecutionError"}

\* line 39: except Exception
CaughtAsWarning_Never(fault) == FALSE
CaughtAsWarning(fault) == fault \in QueryFaults

SchemaCharacters == {"D", ";", " ", "-"}

InitSchema ==
    /\ InitDb /\ InitNodeUnused /\ InitLegacyUnused /\ InitFnUnused
    /\ input \in {[schema_sql |-> s] : s \in SeqsUpTo(SchemaCharacters, MaxSchemaChars)}
    /\ obj = [pc |-> "called"]

UnchangedBySchema ==
    UNCHANGED <<concept_id, domain_cluster, relationship_map, max_hops, ancestor_map,
                graph_paths, concept_embedding, domain_cluster_centroid,
                source_authority, input, dbVars, nodeVars, legacyVars>>

\* lines 31, 34: the file is read and split
ApplySchemaSplit ==
    /\ obj.pc = "called"
    /\ obj' = [pc |-> "loop", statements |-> str_split(input.schema_sql, ";"),
               queries |-> <<>>, warnings |-> <<>>]
    /\ UNCHANGED <<fn, ret>>
    /\ UnchangedBySchema

\* lines 35-42: one turn of the loop; queries records each query with how it ended
ApplySchemaStatement ==
    /\ obj.pc = "loop"
    /\ obj.statements # <<>>
    /\ LET statement == str_strip(Head(obj.statements))
           rest == [obj EXCEPT !.statements = Tail(obj.statements)]
       IN  IF IsExecuted(statement)
           THEN \E ended \in {"ok"} \cup QueryFaults :
                   LET queried == [rest EXCEPT !.queries =
                                      Append(@, [statement |-> statement, outcome |-> ended])]
                   IN  obj' = IF ended = "ok" THEN queried
                              ELSE IF CaughtAsWarning(ended)
                                   THEN [queried EXCEPT !.warnings = Append(@, ended)]
                                   ELSE [queried EXCEPT !.pc = "raised"]
           ELSE obj' = rest
    /\ UNCHANGED <<fn, ret>>
    /\ UnchangedBySchema

\* the loop is over: apply_schema returns None
ApplySchemaReturn ==
    /\ obj.pc = "loop"
    /\ obj.statements = <<>>
    /\ obj' = [obj EXCEPT !.pc = "returned"]
    /\ fn' = "apply_schema"
    /\ ret' = NoRecord
    /\ UnchangedBySchema

NextSchema ==
    \/ ApplySchemaSplit
    \/ ApplySchemaStatement
    \/ ApplySchemaReturn

SpecSchema == InitSchema /\ [][NextSchema]_vars

-----------------------------------------------------------------------------
(* src/src/search/hybrid_search.py: HybridSearchBuilder *)

\* dict.get(key, default)
DictGet_Default(d, key, default) == default
DictGet(d, key, default) == IF key \in DOMAIN d THEN d[key] ELSE default

\* lines 71, 80, 87: the default of limit
DefaultLimit == 10

\* lines 59-91: the call execute makes on the executor, or the error it raises
execute(query_params) ==
    IF "domain_cluster_id" \in DOMAIN query_params
    THEN [call |-> "search_by_domain_cluster",
          domain_cluster_id |-> query_params["domain_cluster_id"],
          query_embedding |-> DictGet(query_params, "query_embedding", NoRecord),
          limit |-> DictGet(query_params, "limit", DefaultLimit),
          min_score |-> DictGet(query_params, "min_score", RZero)]
    ELSE IF "domain_concepts" \in DOMAIN query_params
            /\ "query_embedding" \in DOMAIN query_params
    THEN [call |-> "vector_search",
          query_embedding |-> query_params["query_embedding"],
          limit |-> DictGet(query_params, "limit", DefaultLimit),
          threshold |-> DictGet(query_params, "min_score", RZero)]
    ELSE IF "query_embedding" \in DOMAIN query_params
    THEN [call |-> "vector_search",
          query_embedding |-> query_params["query_embedding"],
          limit |-> DictGet(query_params, "limit", DefaultLimit),
          threshold |-> DictGet(query_params, "min_score", RZero)]
    ELSE [raised |-> "ValueError"]

\* lines 14-22; calls keeps the with_* calls made on the builder
InitBuilder ==
    /\ InitDb /\ InitNodeUnused /\ InitLegacyUnused /\ InitFnUnused
    /\ input = <<>>
    /\ obj = [query_params |-> EmptyMap, calls |-> <<>>, pc |-> "building"]

\* a with_* method: the parameters it leaves, and self returned
BuilderCall(method, args, query_params) ==
    /\ obj.pc = "building"
    /\ Len(obj.calls) < MaxBuilderCalls
    /\ obj' = [obj EXCEPT !.query_params = query_params,
                          !.calls = Append(@, [method |-> method, args |-> args])]
    /\ UNCHANGED <<input, fnVars, dbVars, nodeVars, legacyVars>>

\* lines 24-27
with_query_embedding ==
    \E embedding \in {"e1"} :
        BuilderCall("with_query_embedding", embedding,
                    Put(obj.query_params, "query_embedding", embedding))

\* lines 29-32
with_domain_cluster ==
    \E cluster_id \in {"c1", "c2"} :
        BuilderCall("with_domain_cluster", cluster_id,
                    Put(obj.query_params, "domain_cluster_id", cluster_id))

\* lines 34-37
with_domain_concepts ==
    \E concept_ids \in {{1, 2}} :
        BuilderCall("with_domain_concepts", concept_ids,
                    Put(obj.query_params, "domain_concepts", concept_ids))

\* lines 39-42
with_limit ==
    \E limit \in {5, 20} :
        BuilderCall("with_limit", limit, Put(obj.query_params, "limit", limit))

\* lines 44-47
with_min_score ==
    \E min_score \in {Rat(1, 2)} :
        BuilderCall("with_min_score", min_score,
                    Put(obj.query_params, "min_score", min_score))

\* lines 49-57
with_weights ==
    \E vector_weight \in {Rat(3, 10)}, graph_weight \in {Rat(7, 10)} :
        BuilderCall("with_weights", <<vector_weight, graph_weight>>,
                    Put(Put(obj.query_params, "vector_weight", vector_weight),
                        "graph_weight", graph_weight))

\* lines 59-91
Call_execute ==
    /\ obj.pc = "building"
    /\ obj' = [obj EXCEPT !.pc = "executed"]
    /\ fn' = "execute"
    /\ ret' = execute(obj.query_params)
    /\ UNCHANGED <<concept_id, domain_cluster, relationship_map, max_hops, ancestor_map,
                   graph_paths, concept_embedding, domain_cluster_centroid,
                   source_authority, input, dbVars, nodeVars, legacyVars>>

NextBuilder ==
    \/ with_query_embedding
    \/ with_domain_cluster
    \/ with_domain_concepts
    \/ with_limit
    \/ with_min_score
    \/ with_weights
    \/ Call_execute

SpecBuilder == InitBuilder /\ [][NextBuilder]_vars

-----------------------------------------------------------------------------
(* src/src/search/query_executor.py: HybridSearchExecutor.hybrid_search *)

\* lines 96-106: vector_search on the rows the database answers with
vector_search(rows, limit) ==
    SubSeq(rows, 1, IF limit < Len(rows) THEN limit ELSE Len(rows))

\* lines 153-156: {result["concept_id"]: result.get("similarity", 0.0) ...}
VectorScores(vector_results) ==
    [c \in {vector_results[i].concept_id : i \in 1..Len(vector_results)} |->
        LET last == CHOOSE i \in 1..Len(vector_results) :
                        /\ vector_results[i].concept_id = c
                        /\ \A j \in (i + 1)..Len(vector_results) :
                              vector_results[j].concept_id # c
        IN  vector_results[last].similarity]

\* lines 159-165
GraphScores(cluster, rel_map) ==
    [c \in {x \in cluster : x \in DOMAIN rel_map} |->
        calculate_path_density(c, cluster, rel_map, DefaultMaxHops)]

\* line 176
CombinedScore_VectorOnly(vector_weight, vector_score, graph_weight, graph_score) ==
    RMul(vector_weight, vector_score)
CombinedScore(vector_weight, vector_score, graph_weight, graph_score) ==
    RAdd(RMul(vector_weight, vector_score), RMul(graph_weight, graph_score))

\* lines 167-183: one result per concept of either side
CombinedResults(vector_scores, graph_scores, vector_weight, graph_weight) ==
    {LET vector_score == DictGet(vector_scores, c, RZero)
         graph_score == DictGet(graph_scores, c, RZero)
     IN  [concept_id |-> c,
          combined_score |-> CombinedScore(vector_weight, vector_score,
                                           graph_weight, graph_score),
          vector_score |-> vector_score,
          graph_score |-> graph_score] :
     c \in (DOMAIN vector_scores) \cup (DOMAIN graph_scores)}

\* line 186: the lists sort(reverse=True) can leave; results of equal score
\* stay in the iteration order of the set, which is not fixed
SortedDescending(unsorted) ==
    {l \in [1..Cardinality(unsorted) -> unsorted] :
        /\ \A i, j \in DOMAIN l : i # j => l[i] # l[j]
        /\ \A i, j \in DOMAIN l : i < j => RLeq(l[j].combined_score, l[i].combined_score)}

\* lines 130-188: the lists hybrid_search can return
hybrid_search(rows, cluster, rel_map, limit, vector_weight, graph_weight) ==
    LET vector_results == vector_search(rows, limit * 2)
        combined_results == CombinedResults(VectorScores(vector_results),
                                            GraphScores(cluster, rel_map),
                                            vector_weight, graph_weight)
    IN  {SubSeq(l, 1, IF limit < Len(l) THEN limit ELSE Len(l)) :
            l \in SortedDescending(combined_results)}

SearchConcepts == {1, 2, 3}

IsAEdge(target) == <<target, StructuralKind[1], StructuralKind[2]>>

\* relationship maps as build_relationship_map leaves them: every key has a
\* tuple
SearchMaps ==
    {EmptyMap,
     Put(EmptyMap, 1, <<IsAEdge(2)>>),
     Put(EmptyMap, 1, <<IsAEdge(2), IsAEdge(3)>>),
     Put(Put(EmptyMap, 1, <<IsAEdge(2)>>), 2, <<IsAEdge(3)>>),
     Put(Put(EmptyMap, 1, <<IsAEdge(2)>>), 2, <<IsAEdge(1)>>),
     Put(Put(EmptyMap, 2, <<IsAEdge(3)>>), 3, <<IsAEdge(1)>>),
     Put(EmptyMap, 3, <<IsAEdge(4)>>)}

\* the rows of table metric the vector query answers with: one per concept
VectorRows ==
    {rows \in SeqsUpTo([concept_id : SearchConcepts, similarity : {Rat(1, 2), ROne}],
                       MaxVectorRows) :
        \A i, j \in 1..Len(rows) : i # j => rows[i].concept_id # rows[j].concept_id}

InitSearch ==
    /\ InitDb /\ InitNodeUnused /\ InitLegacyUnused
    /\ relationship_map \in SearchMaps
    /\ domain_cluster \in {{}, {1, 2}, {2, 3}, {1, 2, 3}}
    /\ concept_id = StartConcept
    /\ max_hops = DefaultMaxHops
    /\ ancestor_map = EmptyMap
    /\ graph_paths = EmptyMap
    /\ concept_embedding = <<>>
    /\ domain_cluster_centroid = <<>>
    /\ source_authority = RZero
    /\ fn = ""
    /\ ret = 0
    /\ input \in [rows : VectorRows, limit : 0..MaxLimit,
                  weights : {<<Rat(1, 2), Rat(1, 2)>>, <<Rat(3, 10), Rat(7, 10)>>}]
    /\ obj = <<>>

Call_hybrid_search ==
    /\ fn = ""
    /\ fn' = "hybrid_search"
    /\ ret' \in hybrid_search(input.rows, domain_cluster, relationship_map, input.limit,
                              input.weights[1], input.weights[2])
    /\ UnchangedInputs

NextSearch == Call_hybrid_search

SpecSearch == InitSearch /\ [][NextSearch]_vars

-----------------------------------------------------------------------------
(* Two clients upserting the same record *)

WriterConnect(w) ==
    /\ UpsertIdle(w)
    /\ ClientConnect(w)
    /\ UNCHANGED <<store, sync_connected, upc, uarg, uops, ufound, expected, all_ok, ncalls>>
    /\ UNCHANGED <<fnVars, nodeVars, legacyVars, callVars>>

\* both writers upsert concept:1
WriterUpsert(w) ==
    /\ \E data \in RecordData : UpsertBegin(w, "concept", "1", data)
    /\ UNCHANGED <<fnVars, nodeVars, legacyVars, callVars>>

NextWriters ==
    \E w \in Clients :
        \/ WriterConnect(w)
        \/ WriterUpsert(w)
        \/ UpsertSelect(w)
        \/ UpsertUpdate(w)
        \/ UpsertCreate(w)

SpecWriters == InitUpsert /\ [][NextWriters]_vars

-----------------------------------------------------------------------------
(* src/src/database/surreal_client.py lines 52-87: the life of one client.
   obj is the last of connect and close that was called. *)

UnchangedByLifecycle ==
    UNCHANGED <<concept_id, domain_cluster, relationship_map, max_hops, ancestor_map,
                graph_paths, concept_embedding, domain_cluster_centroid,
                source_authority, input, store, sync_connected, upc, uarg, uops, ufound,
                expected, all_ok, ncalls, nodeVars, legacyVars>>

InitLifecycle ==
    /\ InitDb /\ InitNodeUnused /\ InitLegacyUnused /\ InitFnUnused
    /\ input = <<>>
    /\ obj = "init"

\* lines 52-73
Call_connect ==
    /\ ClientConnect(TheClient)
    /\ fn' = "connect"
    /\ ret' = NoRecord
    /\ obj' = "connect"
    /\ UnchangedByLifecycle

\* lines 75-83
Call_close ==
    /\ ClientClose(TheClient)
    /\ fn' = "close"
    /\ ret' = NoRecord
    /\ obj' = "close"
    /\ UNCHANGED uerr
    /\ UnchangedByLifecycle

\* lines 85-87
Call_is_connected ==
    /\ fn' = "is_connected"
    /\ ret' = client_connected[TheClient]
    /\ UNCHANGED <<obj, client_db, client_connected, uerr>>
    /\ UnchangedByLifecycle

NextLifecycle ==
    \/ Call_connect
    \/ Call_close
    \/ Call_is_connected
    \/ CallSelect

SpecLifecycle == InitLifecycle /\ [][NextLifecycle]_vars

-----------------------------------------------------------------------------
(* src/src/database/schema.py: apply_schema on a schema text of several lines *)

SchemaLineCharacters == {"D", ";", "\n", "-"}

InitSchemaLines ==
    /\ InitDb /\ InitNodeUnused /\ InitLegacyUnused /\ InitFnUnused
    /\ input \in {[schema_sql |-> s] : s \in SeqsUpTo(SchemaLineCharacters, MaxSchemaChars)}
    /\ obj = [pc |-> "called"]

SpecSchemaLines == InitSchemaLines /\ [][NextSchema]_vars

-----------------------------------------------------------------------------
(* src/pipelines/umls_pipeline.py and the @asset decorators of src/assets:
   the orchestrated pipeline.  The orchestrator is not part of the
   repository: it starts a node once every node it depends on has completed,
   runs nodes that do not depend on each other in any order or side by side,
   and never starts a node below a failed one.
   obj.status is the state of every node, obj.at the number of steps a node
   has taken, obj.seen the counts audit_report has read. *)

Assets == DbNodes \cup {"umls_raw_load", "graph_metrics_calc", "concept_embedding_gen",
                        "authority_scores_calc", "relevance_scores_calc"}

\* deps= of the decorator
DeclaredDeps(n) ==
    CASE n = "umls_raw_load" -> {}
      [] n = "surreal_upsert_metrics" ->
            {"graph_metrics_calc", "concept_embedding_gen", "authority_scores_calc"}
      [] n = "relevance_scores_calc" -> {"surreal_upsert_metrics", "umls_raw_load"}
      [] n = "surreal_upsert_relevance_scores" -> {"relevance_scores_calc"}
      [] n = "audit_report" -> {"surreal_upsert_relevance_scores"}
      [] OTHER -> {"umls_raw_load"}

\* the parameters of the function that are named after a node
ParameterDeps(n) ==
    CASE n = "umls_raw_load" -> {}
      [] n = "surreal_upsert_metrics" ->
            {"graph_metrics_calc", "concept_embedding_gen", "authority_scores_calc"}
      [] n = "relevance_scores_calc" ->
            {"umls_raw_load", "graph_metrics_calc", "concept_embedding_gen",
             "authority_scores_calc"}
      [] n = "surreal_upsert_relevance_scores" -> {"relevance_scores_calc"}
      [] n = "audit_report" -> {"umls_raw_load", "relevance_scores_calc"}
      [] OTHER -> {"umls_raw_load"}

Upstream_None(n) == {}
Upstream(n) == DeclaredDeps(n) \cup ParameterDeps(n)

\* what a node does between its start and its end, for the records of the input
AssetProgram(n, records) ==
    IF n = "audit_report" THEN AuditProgram
    ELSE IF n = "surreal_ingest_reference_tables"
         THEN UpsertLoop("vocabulary", records) \o UpsertLoop("domain", records)
                  \o UpsertLoop("relationship", records)
    ELSE IF n \in DbNodes THEN UpsertLoop(NodeTable(n), records)
    ELSE <<>>

\* SELECT count() FROM table GROUP ALL
CountOf(st, table) == Cardinality({r \in st : r.id[1] = table})

\* the ids of the records of an input table, in file order
PipelineRecordIds == <<"1", "2", "3">>

UnchangedByPipeline ==
    UNCHANGED <<fnVars, nodeVars, legacyVars, input, client_db, client_connected,
                sync_connected, upc, uarg, uerr, uops, ufound, expected, all_ok, ncalls>>

InitPipeline ==
    /\ InitDb /\ InitNodeUnused /\ InitLegacyUnused /\ InitFnUnused
    /\ input \in {[records |-> SubSeq(PipelineRecordIds, 1, k)] : k \in 0..MaxPipelineRecords}
    /\ obj = [status |-> [n \in Assets |-> "pending"],
              at |-> [n \in Assets |-> 0],
              seen |-> EmptyMap]

\* the orchestrator starts a node
AssetStart(n) ==
    /\ obj.status[n] = "pending"
    /\ \A u \in Upstream(n) : obj.status[u] = "done"
    /\ obj' = [obj EXCEPT !.status[n] = "running"]
    /\ UNCHANGED store
    /\ UnchangedByPipeline

\* one step of a running node: the upsert of the next record, or the next query
AssetStep(n) ==
    /\ obj.status[n] = "running"
    /\ obj.at[n] < Len(AssetProgram(n, input.records))
    /\ LET step == AssetProgram(n, input.records)[obj.at[n] + 1]
           id == FullId(step.table, step.record_id)
       IN  /\ store' = IF step.kind = "upsert"
                       THEN {r \in store : r.id # id} \cup {[id |-> id, data |-> n]}
                       ELSE store
           /\ obj' = [obj EXCEPT !.at[n] = @ + 1,
                                 !.seen = IF step.kind = "query"
                                          THEN Put(@, step.table, CountOf(store, step.table))
                                          ELSE @]
    /\ UnchangedByPipeline

\* the node returns
AssetReturn(n) ==
    /\ obj.status[n] = "running"
    /\ obj.at[n] = Len(AssetProgram(n, input.records))
    /\ obj' = [obj EXCEPT !.status[n] = "done"]
    /\ UNCHANGED store
    /\ UnchangedByPipeline

\* the node raises: a file that cannot be read, a failed connect or upsert
AssetRaise(n) ==
    /\ obj.status[n] = "running"
    /\ obj' = [obj EXCEPT !.status[n] = "failed"]
    /\ UNCHANGED store
    /\ UnchangedByPipeline

NextPipeline ==
    \E n \in Assets :
        \/ AssetStart(n)
        \/ AssetStep(n)
        \/ AssetReturn(n)
        \/ AssetRaise(n)

SpecPipeline == InitPipeline /\ [][NextPipeline]_vars

-----------------------------------------------------------------------------
(* src/assets/relevance_scores.py: relevance_scores_calc, and its copy
   step8_calculate_relevance_scores of src/main.py.
   The concept table is a sequence of rows <<concept_id, domain_id>>. *)

\* the integer square root of a perfect square
ISqrt(n) == CHOOSE k \in 0..n : k * k = n

\* np.linalg.norm, for vectors whose norm is rational
Norm(v) ==
    LET squares == Dot(v, v)
    IN  Rat(ISqrt(squares[1]), ISqrt(squares[2]))

\* np.mean(cluster_embeddings, axis=0), over the embeddings of a set of concepts
RECURSIVE SumVectors(_, _, _)
SumVectors(cs, embeddings, zero) ==
    IF cs = {} THEN zero
    ELSE LET c == CHOOSE x \in cs : TRUE
             rest == SumVectors(cs \ {c}, embeddings, zero)
         IN  [i \in 1..Len(zero) |-> RAdd(embeddings[c][i], rest[i])]

\* relevance.py lines 92-129
calculate_domain_cluster_centroid(cluster, embeddings) ==
    LET with_embedding == {c \in cluster : c \in DOMAIN embeddings /\ Len(embeddings[c]) > 0}
    IN  IF with_embedding = {}
        THEN IF DOMAIN embeddings # {}
             THEN LET first == CHOOSE c \in DOMAIN embeddings : \A o \in DOMAIN embeddings : c <= o
                  IN  [i \in 1..Len(embeddings[first]) |-> RZero]
             ELSE <<>>
        ELSE LET any == CHOOSE c \in with_embedding : TRUE
                 zero == [i \in 1..Len(embeddings[any]) |-> RZero]
                 total == SumVectors(with_embedding, embeddings, zero)
                 centroid == [i \in 1..Len(zero) |->
                                 RDiv(total[i], RInt(Cardinality(with_embedding)))]
                 norm == Norm(centroid)
             IN  IF RLess(RZero, norm)
                 THEN [i \in 1..Len(zero) |-> RDiv(centroid[i], norm)]
                 ELSE centroid

\* lines 52-59: the domains in the order of their first row, and their clusters
RECURSIVE DomainOrder(_, _)
DomainOrder(rows, known) ==
    IF rows = <<>> THEN <<>>
    ELSE IF Head(rows)[2] \in known THEN DomainOrder(Tail(rows), known)
    ELSE <<Head(rows)[2]>> \o DomainOrder(Tail(rows), known \cup {Head(rows)[2]})

DomainCluster(rows, domain_id) == {rows[i][1] : i \in {j \in 1..Len(rows) : rows[j][2] = domain_id}}

\* line 77: graph_paths = {concept_id: {}}
PlaceholderPaths_Self(c) == Put(EmptyMap, c, Put(EmptyMap, c, 0))
PlaceholderPaths(c) == Put(EmptyMap, c, EmptyMap)

\* line 87: authority_scores_calc.get(concept_id, 0.5)
AuthorityOrDefault(authority, c) ==
    IF c \in DOMAIN authority THEN authority[c] ELSE Rat(1, 2)

\* lines 73-95: the scores of the concepts of one cluster
ScoreCluster(domain_id, cluster, scores, embeddings, authority, rel_map, anc_map) ==
    LET centroid == calculate_domain_cluster_centroid(cluster, embeddings)
        scored == {c \in cluster : c \in DOMAIN embeddings}
        Result(c) == calculate_relevance(c, cluster, rel_map, anc_map, embeddings[c],
                                         centroid, PlaceholderPaths(c),
                                         AuthorityOrDefault(authority, c))
    IN  [c \in DOMAIN scores \cup scored |->
            IF c \in scored
            THEN [domain_cluster_id |-> domain_id,
                  score |-> Result(c).score,
                  s_struct |-> Result(c).s_struct,
                  s_sem |-> Result(c).s_sem,
                  s_density |-> Result(c).s_density,
                  s_authority |-> Result(c).s_authority]
            ELSE scores[c]]

\* lines 67-95: for domain_id, cluster in domain_clusters.items()
RECURSIVE ScoreDomains(_, _, _, _, _, _, _)
ScoreDomains(order, rows, scores, embeddings, authority, rel_map, anc_map) ==
    IF order = <<>> THEN scores
    ELSE ScoreDomains(Tail(order), rows,
                      ScoreCluster(Head(order), DomainCluster(rows, Head(order)), scores,
                                   embeddings, authority, rel_map, anc_map),
                      embeddings, authority, rel_map, anc_map)

relevance_scores_calc(rows, embeddings, authority, rel_map, anc_map) ==
    [scores |-> ScoreDomains(DomainOrder(rows, {}), rows, EmptyMap, embeddings, authority,
                             rel_map, anc_map)]

\* src/main.py lines 376-448: the same statements
step8_calculate_relevance_scores(rows, embeddings, authority, rel_map, anc_map) ==
    [scores |-> ScoreDomains(DomainOrder(rows, {}), rows, EmptyMap, embeddings, authority,
                             rel_map, anc_map)]

StageConcepts == {1, 2}
StageDomains == {"Drug", "Condition"}
StageEmbeddings == {<<RInt(1), RInt(0)>>, <<RInt(-1), RInt(0)>>}

DictsOver(keys, values) == UNION {[ks -> values] : ks \in SUBSET keys}

InitStage ==
    InitCall({[rows |-> rows, embeddings |-> e, authority |-> a,
               relationships |-> r, ancestors |-> n] :
                 rows \in SeqsUpTo(StageConcepts \X StageDomains, MaxStageRows),
                 e \in DictsOver(StageConcepts, StageEmbeddings),
                 a \in DictsOver(StageConcepts, {Rat(7, 10)}),
                 r \in {EmptyMap, Put(EmptyMap, 1, <<<<2, "is_a", ROne>>>>)},
                 n \in {EmptyMap, Put(EmptyMap, 1, {2})}})

Call_relevance_scores_calc ==
    Returns("relevance_scores_calc",
            relevance_scores_calc(input.rows, input.embeddings, input.authority,
                                  input.relationships, input.ancestors))

Call_step8_calculate_relevance_scores ==
    Returns("step8_calculate_relevance_scores",
            step8_calculate_relevance_scores(input.rows, input.embeddings, input.authority,
                                             input.relationships, input.ancestors))

NextStage ==
    \/ Call_relevance_scores_calc
    \/ Call_step8_calculate_relevance_scores

SpecStage == InitStage /\ [][NextStage]_vars

-----------------------------------------------------------------------------
(* src/main.py: main, the stand-alone runner.
   obj.step is the index of the step that runs or runs next, obj.pc where the
   runner stands, obj.at the number of upserts of the running step that have
   returned, obj.trace the steps called so far. *)

\* lines 502-529: the calls of main, in the order of the text
main_steps_Swapped ==
    <<"step1_load_data", "step2_setup_database", "step3_ingest_raw_data",
      "step4_calculate_graph_metrics", "step5_generate_embeddings",
      "step6_calculate_authority_scores", "step8_calculate_relevance_scores",
      "step7_upsert_metrics", "step9_upsert_relevance_scores">>
main_steps ==
    <<"step1_load_data", "step2_setup_database", "step3_ingest_raw_data",
      "step4_calculate_graph_metrics", "step5_generate_embeddings",
      "step6_calculate_authority_scores", "step7_upsert_metrics",
      "step8_calculate_relevance_scores", "step9_upsert_relevance_scores">>

\* the upserts of a step, for the records of the input (lines 129-199, 359, 479)
StepProgram(name, records) ==
    CASE name = "step3_ingest_raw_data" ->
            UpsertLoop("concept", records) \o UpsertLoop("relates_to", records)
                \o UpsertLoop("is_ancestor_of", records) \o UpsertLoop("vocabulary", records)
                \o UpsertLoop("domain", records) \o UpsertLoop("relationship", records)
      [] name = "step7_upsert_metrics" -> UpsertLoop("metric", records)
      [] name = "step9_upsert_relevance_scores" -> UpsertLoop("relevance_score", records)
      [] OTHER -> <<>>

UnchangedByRunner ==
    UNCHANGED <<fnVars, nodeVars, legacyVars, input, client_db, client_connected,
                sync_connected, upc, uarg, uerr, uops, ufound, expected, all_ok, ncalls>>

InitRunner ==
    /\ InitDb /\ InitNodeUnused /\ InitLegacyUnused /\ InitFnUnused
    /\ input \in {[records |-> r] : r \in SeqsUpTo(RecordIds, MaxRunnerRecords)}
    /\ obj = [step |-> 1, pc |-> "between", at |-> 0, trace |-> <<>>]

\* main calls the next step
RunnerCall ==
    /\ obj.pc = "between"
    /\ obj.step <= Len(main_steps)
    /\ obj' = [obj EXCEPT !.pc = "in step", !.at = 0,
                          !.trace = Append(@, main_steps[obj.step])]
    /\ UNCHANGED store
    /\ UnchangedByRunner

\* the next upsert of the running step returns
RunnerUpsert ==
    /\ obj.pc = "in step"
    /\ obj.at < Len(StepProgram(main_steps[obj.step], input.records))
    /\ LET step == StepProgram(main_steps[obj.step], input.records)[obj.at + 1]
           id == FullId(step.table, step.record_id)
       IN  store' = {r \in store : r.id # id} \cup {[id |-> id, data |-> main_steps[obj.step]]}
    /\ obj' = [obj EXCEPT !.at = @ + 1]
    /\ UnchangedByRunner

\* the running step returns; after the last one main prints and returns
RunnerReturn ==
    /\ obj.pc = "in step"
    /\ obj.at = Len(StepProgram(main_steps[obj.step], input.records))
    /\ obj' = [obj EXCEPT !.step = @ + 1,
                          !.pc = IF obj.step = Len(main_steps) THEN "completed" ELSE "between"]
    /\ UNCHANGED store
    /\ UnchangedByRunner

\* the running step raises (each step re-raises what it catches, lines 93-98,
\* 202-210, 365-373, 485-493) and main has no handler: the run ends
RunnerRaise ==
    /\ obj.pc = "in step"
    /\ obj' = [obj EXCEPT !.pc = "raised"]
    /\ UNCHANGED store
    /\ UnchangedByRunner

NextRunner ==
    \/ RunnerCall
    \/ RunnerUpsert
    \/ RunnerReturn
    \/ RunnerRaise

SpecRunner == InitRunner /\ [][NextRunner]_vars

-----------------------------------------------------------------------------
(* Shortest directed hop distance, for stating what the searches must return *)

Successors(rel_map, n) ==
    IF n \in DOMAIN rel_map
    THEN {rel_map[n][i][1] : i \in 1..Len(rel_map[n])}
    ELSE {}

\* the concepts with a directed path of at most k edges from start
RECURSIVE ReachWithin(_, _, _)
ReachWithin(start, rel_map, k) ==
    IF k = 0 THEN {start}
    ELSE LET r == ReachWithin(start, rel_map, k - 1)
         IN  r \cup UNION {Successors(rel_map, n) : n \in r}

ShortestHops(start, rel_map, t) ==
    CHOOSE d \in 0..Cardinality(Concepts) :
        /\ t \in ReachWithin(start, rel_map, d)
        /\ \A e \in 0..(d - 1) : t \notin ReachWithin(start, rel_map, e)

ShortestPathMap(start, targets, rel_map, mh) ==
    [t \in {x \in targets \ {start} : x \in ReachWithin(start, rel_map, mh)}
        |-> ShortestHops(start, rel_map, t)]

\* C1: find_paths_3hop returns exactly the map sending each target other than
\* the start whose shortest directed path from the start has length d, with
\* 1 <= d <= max_hops, to d: no key outside the target set, every hop count
\* the shortest one, none above max_hops.
C1_FindPathsShortest ==
    fn = "find_paths_3hop" =>
        /\ ret = ShortestPathMap(concept_id, domain_cluster, relationship_map, max_hops)
        /\ DOMAIN ret \subseteq domain_cluster \ {concept_id}
        /\ \A t \in DOMAIN ret : 1 <= ret[t] /\ ret[t] <= max_hops

\* a two-level search result that leaves out a target lying beyond max_hops
C1_Witness ==
    /\ fn = "find_paths_3hop"
    /\ max_hops = 2
    /\ \E t, u \in DOMAIN ret : ret[t] = 1 /\ ret[u] = 2
    /\ \E v \in domain_cluster \ DOMAIN ret :
          v \in ReachWithin(concept_id, relationship_map, Cardinality(Concepts)) \ {concept_id}

RECURSIVE WalkEnds(_, _, _)
WalkEnds(start, rel_map, k) ==
    IF k = 0 THEN {<<start, RZero>>}
    ELSE UNION {IF e[1] \in DOMAIN rel_map
                THEN {<<rel_map[e[1]][i][1],
                        RAdd(e[2], RDiv(ROne, rel_map[e[1]][i][3]))>> :
                          i \in 1..Len(rel_map[e[1]])}
                ELSE {} : e \in WalkEnds(start, rel_map, k - 1)}

\* C10: find_paths_with_weights reports an entry for every target other than
\* the start reachable within max_hops hops (the key set of find_paths_3hop),
\* each with hop_count <= max_hops and weighted_distance the sum of 1/weight
\* over the edges of a path from the start with that hop count.
C10_WeightedReportsReachable ==
    fn = "find_paths_with_weights" =>
        /\ DOMAIN ret = DOMAIN find_paths_3hop(concept_id, domain_cluster,
                                               relationship_map, max_hops)
        /\ \A t \in DOMAIN ret :
              /\ ret[t][1] <= max_hops
              /\ <<t, ret[t][2]>> \in WalkEnds(concept_id, relationship_map, ret[t][1])

-----------------------------------------------------------------------------
(* The structural score *)

\* the three levels as documented
HasMappingInto(c, cluster, rel_map) ==
    \E s \in DOMAIN rel_map : s = c /\
       \E i \in 1..Len(rel_map[s]) :
          /\ rel_map[s][i][1] \in cluster
          /\ rel_map[s][i][2] \in {"mapped_from", "maps_to", "concept_same_as", "is_a", "isa"}

IsRecordedAncestorOf(a, d, anc_map) == d \in DOMAIN anc_map /\ a \in anc_map[d]

AncestryLinksCluster(c, cluster, anc_map) ==
    \E m \in cluster : IsRecordedAncestorOf(c, m, anc_map) \/ IsRecordedAncestorOf(m, c, anc_map)

\* C6: calculate_s_struct returns exactly one of 0.0, 0.5, 1.0: 1.0 if the
\* concept is a cluster member or has an outgoing relationship into the cluster
\* of type mapped_from, maps_to, concept_same_as, is_a or isa; otherwise 0.5 if
\* the concept is a recorded ancestor of a cluster member or a cluster member is
\* a recorded ancestor of the concept; otherwise 0.0.
C6_StructLevels ==
    fn = "calculate_s_struct" =>
        /\ ret \in {RZero, Rat(1, 2), ROne}
        /\ ret = IF concept_id \in domain_cluster
                    \/ HasMappingInto(concept_id, domain_cluster, relationship_map)
                 THEN ROne
                 ELSE IF AncestryLinksCluster(concept_id, domain_cluster, ancestor_map)
                      THEN Rat(1, 2)
                      ELSE RZero

\* the score 1.0 decided by the second tuple of the list, an isa relationship
\* into the cluster, after a first tuple that does not count
C6_Witness ==
    /\ fn = "calculate_s_struct"
    /\ ret = ROne
    /\ concept_id \notin domain_cluster
    /\ concept_id \in DOMAIN relationship_map
    /\ Len(relationship_map[concept_id]) = 2
    /\ relationship_map[concept_id][1][2] = "associated_with"
    /\ relationship_map[concept_id][1][1] \in domain_cluster
    /\ relationship_map[concept_id][2][2] = "isa"
    /\ relationship_map[concept_id][2][1] \in domain_cluster

-----------------------------------------------------------------------------
(* The density score *)

\* 144 / (hops + 1)^2 for hops 0..3
DecayOver144(h) == IF h = 0 THEN 144 ELSE IF h = 1 THEN 36 ELSE IF h = 2 THEN 16 ELSE 9

RECURSIVE SumOver144(_, _)
SumOver144(members, hops) ==
    IF members = {} THEN 0
    ELSE LET m == CHOOSE x \in members : TRUE
         IN  DecayOver144(hops[m]) + SumOver144(members \ {m}, hops)

\* the documented density, for a concept with recorded paths
ExpectedDensity(cluster, hops) ==
    Rat(SumOver144({m \in cluster \cap DOMAIN hops : hops[m] <= 3}, hops),
        144 * Cardinality(cluster))

DensityAsClaimed(c, cluster, paths, r) ==
    /\ RLeq(RZero, r) /\ RLeq(r, ROne)
    /\ (c \notin DOMAIN paths \/ cluster = {}) => r = RZero
    /\ (c \in DOMAIN paths /\ cluster # {}) => r = ExpectedDensity(cluster, paths[c])

\* the cluster member whose hop count a step has raised
RaisedMember == CHOOSE m \in DOMAIN graph_paths[concept_id] :
                    graph_paths'[concept_id][m] # graph_paths[concept_id][m]

\* C7 as stated: calculate_s_density is in [0,1], is the sum of 1/(hops+1)^2
\* over the cluster members recorded at no more than 3 hops divided by the
\* cluster size, is 0 without recorded paths or with an empty cluster, and
\* strictly decreases whenever a member's hop count increases.
C7_DensityStrictlyDecreases ==
    [][fn' = "calculate_s_density" =>
          /\ DensityAsClaimed(concept_id, domain_cluster, graph_paths', ret')
          /\ fn = "calculate_s_density" => RLess(ret', ret)]_vars

\* C7 as amended: the same, but the score strictly decreases only when the
\* hop count that increases was at most 3; an increase of a hop count already
\* above 3 leaves the score unchanged.
C7_DensityDecreasesWithinThreeHops ==
    [][fn' = "calculate_s_density" =>
          /\ DensityAsClaimed(concept_id, domain_cluster, graph_paths', ret')
          /\ fn = "calculate_s_density" =>
                IF graph_paths[concept_id][RaisedMember] <= 3
                THEN RLess(ret', ret)
                ELSE ret' = ret]_vars

\* two members within three hops and one at five hops, which does not count:
\* (1/4 + 1/9) / 3
C7_Witness ==
    /\ fn = "calculate_s_density"
    /\ domain_cluster = {2, 3, 4}
    /\ graph_paths = Put(EmptyMap, 1, Put(Put(Put(EmptyMap, 2, 1), 3, 2), 4, 5))
    /\ ret = Rat(13, 108)

-----------------------------------------------------------------------------
(* The composite relevance score *)

InUnitInterval(r) == RLeq(RZero, r) /\ RLeq(r, ROne)

\* C8: for component scores in [0,1] and the weights 0.4/0.3/0.2/0.1,
\* calculate_relevance returns the keys score, s_struct, s_sem, s_density and
\* s_authority, with score = sigmoid(0.4*s_struct + 0.3*s_sem + 0.2*s_density
\* + 0.1*s_authority) strictly between 0 and 1 and the weighted sum in [0,1].
C8_RelevanceInOpenUnitInterval ==
    fn = "calculate_relevance" =>
        /\ DOMAIN ret = {"score", "s_struct", "s_sem", "s_density", "s_authority"}
        /\ InUnitInterval(ret.s_struct) /\ InUnitInterval(ret.s_sem)
        /\ InUnitInterval(ret.s_density) /\ InUnitInterval(ret.s_authority)
        /\ LET x == RAdd(RAdd(RMul(Rat(4, 10), ret.s_struct), RMul(Rat(3, 10), ret.s_sem)),
                         RAdd(RMul(Rat(2, 10), ret.s_density),
                              RMul(Rat(1, 10), ret.s_authority)))
           IN  /\ InUnitInterval(x)
               /\ ret.score = sigmoid(x)
               /\ 0 < ret.score[1] /\ ret.score[1] <= ret.score[2]
               /\ ret.score[2] < ExpScale

\* every component at its maximum: the weighted sum is 1
C8_Witness ==
    /\ fn = "calculate_relevance"
    /\ ret.s_struct = ROne /\ ret.s_sem = ROne
    /\ ret.s_density = ROne /\ ret.s_authority = ROne

-----------------------------------------------------------------------------
(* Upsert by a single writer *)

\* C2: after any sequence of successful upsert calls by a single writer on a
\* connected client the table holds exactly one record per distinct id, with
\* the data of the most recent upsert of that id; each upsert selects
\* table:id, then updates (and does not create) when the record is found and
\* creates (and does not update) when it is not.
C2_UpsertKeepsLatestPerId ==
    /\ (all_ok /\ UpsertIdle(TheClient)) =>
          /\ \A k \in DOMAIN expected :
                Cardinality({r \in store : r.id = k}) = 1
                /\ \A r \in store : r.id = k => r.data = expected[k]
          /\ \A r \in store : r.id \in DOMAIN expected
    /\ upc[TheClient] = "returned" =>
          uops[TheClient] = IF ufound[TheClient] THEN <<"select", "update">>
                            ELSE <<"select", "create">>

\* three upserts have returned: two records created, one of them updated since
C2_Witness ==
    /\ all_ok
    /\ ncalls = 3
    /\ upc[TheClient] = "returned"
    /\ uops[TheClient] = <<"select", "update">>
    /\ Cardinality(store) = 2

-----------------------------------------------------------------------------
(* Release of the connection by the nodes and by the legacy orchestrator *)

\* C3: every database-writing node opens its own client and, on every exit
\* path (normal completion, connect failure, a failing upsert or query partway
\* through its loop), its connection is closed before the node returns or
\* propagates the failure.
C3_NodeClosesConnection ==
    npc[TheClient] \in {"returned", "raised"} =>
        ~client_connected[TheClient] /\ ~sync_connected[TheClient]

\* C4: the exit code is 0 exactly when the run succeeds, the case of no paths
\* included, and 1 on every failure: an empty source or target list, no
\* resolved source or target ids, a GraphTraversalException of a step, an
\* unexpected exception.
C4_ExitCodeReportsSuccess ==
    lpc = "exited" =>
        /\ outcome \in {"completed", "no_paths", "empty_input", "unresolved",
                        "pipeline_error", "unexpected_error", "build_failed"}
        /\ exit_code = IF outcome \in {"completed", "no_paths"} THEN 0 ELSE 1

\* the traversal found nothing and the process exits with 0
C4_Witness ==
    /\ lpc = "exited"
    /\ outcome = "no_paths"
    /\ results = 0
    /\ source_ids # <<>>
    /\ exit_code = 0

\* C5: on every exit path of run (success, no paths, an early failure return
\* before or after connecting, a handled GraphTraversalException, an
\* unexpected exception) the connection is closed: once run has returned the
\* client is no longer connected.
C5_RunClosesConnection ==
    lpc \in {"returned", "exited"} => ~legacy_connected

-----------------------------------------------------------------------------
(* The vocabulary and relationship lookups *)

\* the same letter, whatever its case
SameLetter(a, b) ==
    \/ a = b
    \/ \E k \in 1..Len(LowerLetters) : {a, b} = {LowerLetters[k], UpperLetters[k]}

SameIgnoringCase(s, t) ==
    Len(s) = Len(t) /\ \A i \in 1..Len(s) : SameLetter(s[i], t[i])

ContainsIgnoringCase(pat, s) ==
    \E i \in 1..(Len(s) - Len(pat) + 1) : SameIgnoringCase(SubSeq(s, i, i + Len(pat) - 1), pat)

\* A rule is <<alternatives, value>>; an alternative is a set of patterns that
\* must all occur.  The value of the first rule with a matching alternative.
RECURSIVE FirstRule(_, _, _)
FirstRule(rules, s, default) ==
    IF rules = <<>> THEN default
    ELSE IF \E alt \in Head(rules)[1] : \A pat \in alt : ContainsIgnoringCase(pat, s)
         THEN Head(rules)[2]
         ELSE FirstRule(Tail(rules), s, default)

VocabularyRules ==
    << <<{{<<"S", "N", "O", "M", "E", "D">>}}, ROne>>,
       <<{{<<"I", "C", "D", "1", "0">>}}, Rat(9, 10)>>,
       <<{{<<"L", "O", "I", "N", "C">>}}, Rat(8, 10)>>,
       <<{{<<"R", "X", "N", "O", "R", "M">>}, {<<"R", "X">>}}, Rat(8, 10)>>,
       <<{{<<"I", "C", "D", "9">>}}, Rat(7, 10)>>,
       <<{{<<"C", "P", "T">>}, {<<"H", "C", "P", "C", "S">>}}, Rat(7, 10)>> >>

\* C11: get_vocabulary_authority is total with values in [0,1]: an exact,
\* case-sensitive match in the authority table gives the table's literal before
\* any heuristic; otherwise the first matching case-insensitive substring rule
\* in the order SNOMED, ICD10, LOINC, RXNORM or RX, ICD9, CPT or HCPCS applies;
\* otherwise the result is 0.5.
C11_AuthorityTableThenRules ==
    fn = "get_vocabulary_authority" =>
        LET v == input.vocabulary_id
        IN  /\ RLeq(RZero, ret) /\ RLeq(ret, ROne)
            /\ v = <<"S", "N", "O", "M", "E", "D">> => ret = ROne
            /\ v \in {<<"I", "C", "D", "1", "0", "C", "M">>, <<"I", "C", "D", "1", "0">>} => ret = Rat(9, 10)
            /\ v \in {<<"L", "O", "I", "N", "C">>, <<"R", "x", "N", "o", "r", "m">>} => ret = Rat(8, 10)
            /\ v \in {<<"I", "C", "D", "9", "C", "M">>, <<"C", "P", "T", "4">>, <<"H", "C", "P", "C", "S">>, <<"A", "T", "C">>} => ret = Rat(7, 10)
            /\ v \in {<<"N", "D", "C">>, <<"U", "C", "U", "M">>} => ret = Rat(6, 10)
            /\ v \in {<<"O", "M", "O", "P", " ", "E", "x", "t", "e", "n", "s", "i", "o", "n">>, <<"O", "M", "O", "P", " ", "G", "e", "n", "o", "m", "i", "c">>} => ret = Rat(5, 10)
            /\ v \notin VocabularyAuthorityKeys =>
                  ret = FirstRule(VocabularyRules, v, Rat(5, 10))

\* "icd9" next to "Rx": no table entry, the RX rule comes before the ICD9 rule
C11_Witness ==
    /\ fn = "get_vocabulary_authority"
    /\ input.vocabulary_id = <<"i", "c", "d", "9", "R", "x">>
    /\ ret = Rat(8, 10)

CategoryRules ==
    << <<{{<<"m", "a", "p">>, <<"f", "r", "o", "m">>}}, "equivalence">>,
       <<{{<<"s", "a", "m", "e">>}, {<<"e", "q", "u", "i", "v", "a", "l", "e", "n", "t">>}}, "equivalence">>,
       <<{{<<"i", "s", "_", "a">>}, {<<"i", "s", "a">>}}, "structural">>,
       <<{{<<"s", "u", "b", "s", "u", "m">>}, {<<"p", "a", "r", "e", "n", "t">>}}, "structural">>,
       <<{{<<"f", "i", "n", "d", "i", "n", "g">>}, {<<"s", "i", "t", "e">>}, {<<"d", "u", "e">>}, {<<"c", "a", "u", "s", "e">>}}, "clinical">>,
       <<{{<<"r", "e", "p", "l", "a", "c", "e">>}}, "meta">> >>

CategoryWeight(category) ==
    CASE category = "equivalence" -> ROne
      [] category = "structural" -> Rat(8, 10)
      [] category = "clinical" -> Rat(5, 10)
      [] category = "meta" -> Rat(3, 10)

\* the category of an id: by the table when the trimmed id is a key up to case,
\* then by the rules, then meta
CategoryOf(id) ==
    LET trimmed == str_strip(id)
    IN  IF \E k \in RelationshipKeys : SameIgnoringCase(trimmed, k)
        THEN RELATIONSHIP_CATEGORIES(CHOOSE k \in RelationshipKeys : SameIgnoringCase(trimmed, k))
        ELSE FirstRule(CategoryRules, trimmed, "meta")

\* C12: get_relationship_weight and get_relationship_category lower-case and
\* trim the id and agree: the (category, weight) pair is one of
\* (equivalence, 1.0), (structural, 0.8), (clinical, 0.5), (meta, 0.3), chosen
\* by exact table match first, then by the substring heuristics in their
\* order, then by the default (meta, 0.3); "IS_A" gives (structural, 0.8) and
\* "foo_bar" gives (meta, 0.3).
C12_WeightAndCategoryAgree ==
    /\ fn = "get_relationship_category" =>
          /\ ret \in {"equivalence", "structural", "clinical", "meta"}
          /\ ret = CategoryOf(input.relationship_id)
          /\ input.relationship_id = <<"I", "S", "_", "A">> => ret = "structural"
          /\ input.relationship_id = <<"f", "o", "o", "_", "b", "a", "r">> => ret = "meta"
    /\ fn = "get_relationship_weight" =>
          /\ ret = CategoryWeight(CategoryOf(input.relationship_id))
          /\ ret = CategoryWeight(get_relationship_category(input.relationship_id))
          /\ input.relationship_id = <<"I", "S", "_", "A">> => ret = Rat(8, 10)
          /\ input.relationship_id = <<"f", "o", "o", "_", "b", "a", "r">> => ret = Rat(3, 10)

\* " is_a " then "IS_A": no key after trimming, the is_a rule gives 0.8
C12_Witness ==
    /\ fn = "get_relationship_weight"
    /\ input.relationship_id = <<" ", "i", "s", "_", "a", " ", "I", "S", "_", "A">>
    /\ ret = Rat(8, 10)

-----------------------------------------------------------------------------
(* Cleaning and validation of the relationship table *)

\* null, or nothing left after trimming
NothingAfterTrimming(cell) == cell = Null \/ str_strip(cell[1]) = <<>>

ValidInputRow(row) == NothingAfterTrimming(row.invalid_reason)

\* the same row, whatever the cleaning did to its text columns
RowsCorrespond(out, in) ==
    /\ out.concept_id_1 = in.concept_id_1
    /\ \/ in.relationship_id = Null /\ out.relationship_id \in {Null, Cell(<<>>)}
       \/ in.relationship_id # Null /\ out.relationship_id = Cell(str_strip(in.relationship_id[1]))

\* C13: clean_relationships keeps exactly the input rows whose invalid_reason
\* is null or empty after trimming, in input order, and drops every row with a
\* non-empty invalid_reason: every output row has a null or empty
\* invalid_reason, and an input with no invalid rows keeps its row count.
C13_CleanKeepsValidRows ==
    fn = "clean_relationships" =>
        LET kept == SelectSeq(input.df, ValidInputRow)
        IN  /\ Len(ret) = Len(kept)
            /\ \A i \in 1..Len(ret) :
                  /\ RowsCorrespond(ret[i], kept[i])
                  /\ ret[i].invalid_reason \in {Null, Cell(<<>>)}
            /\ (\A i \in 1..Len(input.df) : ValidInputRow(input.df[i]))
                  => Len(ret) = Len(input.df)

\* a valid row, an invalid one and a blank one: the first and the third are kept
C13_Witness ==
    /\ fn = "clean_relationships"
    /\ Len(input.df) = 3
    /\ input.df[1].invalid_reason = Null /\ input.df[1].concept_id_1 = 1
    /\ input.df[2].invalid_reason = Cell(<<"D">>)
    /\ input.df[3].invalid_reason = Cell(<<" ">>) /\ input.df[3].concept_id_1 = 2
    /\ Len(ret) = 2
    /\ ret[1].concept_id_1 = 1 /\ ret[2].concept_id_1 = 2

\* C14: when every input row of clean_relationships has a null
\* invalid_reason, every output row still has a null invalid_reason.
C14_NullReasonStaysNull ==
    (/\ fn = "clean_relationships"
     /\ \A i \in 1..Len(input.df) : input.df[i].invalid_reason = Null)
        => \A i \in 1..Len(ret) : ret[i].invalid_reason = Null

\* C15: validate_referential_integrity returns valid = true with no errors
\* iff every concept_id_1 and every concept_id_2 of the relationship table is
\* a concept_id of the concept table; otherwise valid = false with one message
\* per offending column, each giving the number of distinct ids of that column
\* missing from the concept table.
C15_ValidIffAllIdsKnown ==
    fn = "validate_referential_integrity" =>
        LET rel == input.df_relationships
            known == {input.df_concepts[i].concept_id : i \in 1..Len(input.df_concepts)}
            Unknown(column) == {c \in ConceptIds :
                                  /\ c \notin known
                                  /\ \E i \in 1..Len(rel) : rel[i][column] = c}
            Offending == {column \in {"concept_id_1", "concept_id_2"} : Unknown(column) # {}}
            valid == ret[1]
            errors == ret[2]
        IN  /\ valid <=> \A i \in 1..Len(rel) :
                            rel[i].concept_id_1 \in known /\ rel[i].concept_id_2 \in known
            /\ valid <=> errors = <<>>
            /\ Len(errors) = Cardinality(Offending)
            /\ \A column \in Offending :
                  \E i \in 1..Len(errors) :
                      errors[i] = [found |-> Cardinality(Unknown(column)), column |-> column]

\* two distinct unknown ids in the first column, one in the second
C15_Witness ==
    /\ fn = "validate_referential_integrity"
    /\ input.df_concepts = <<[concept_id |-> 1]>>
    /\ ret = <<FALSE, <<[found |-> 2, column |-> "concept_id_1"],
                        [found |-> 1, column |-> "concept_id_2"]>> >>

-----------------------------------------------------------------------------
(* The coverage of the audit report *)

\* C16: the audit report's coverage_percentage is (concepts with a relevance
\* score) / (total concepts) * 100, and 0 when the total is 0; with 5 concepts
\* of which 3 have a score it is exactly 60.0.
C16_CoverageIsScoredOverTotal ==
    fn = "audit_report" =>
        /\ "coverage_percentage" \in DOMAIN ret
        /\ ret.coverage_percentage =
              IF input.total_concepts = 0 THEN RZero
              ELSE Rat(100 * input.scores, input.total_concepts)
        /\ (input.total_concepts = 5 /\ input.scores = 3)
              => ret.coverage_percentage = RInt(60)

-----------------------------------------------------------------------------
(* select on the database client *)

\* C17 as stated: select returns the record or absent rather than raising, in
\* every client state and for every driver behaviour.
C17_SelectNeverRaises ==
    [][CallSelect => "returned" \in DOMAIN ret']_vars

\* C17: on a connected client select returns the stored record or absent and
\* no driver fault propagates; on a client that is not connected it raises
\* DatabaseConnectionError.
C17_SelectAbsentOnDriverFault ==
    [][CallSelect =>
          IF client_connected[TheClient] /\ client_db[TheClient] # "None"
          THEN /\ "returned" \in DOMAIN ret'
               /\ ret'.returned \in {NoRecord, DriverSelect(store, input'.record_id)}
          ELSE ret' = [raised |-> "DatabaseConnectionError"]]_vars

\* the driver failed on a record that is stored: absent was returned
C17_Witness ==
    /\ fn = "select"
    /\ client_connected[TheClient]
    /\ \E r \in store : r.id = input.record_id
    /\ ret = [returned |-> NoRecord]

-----------------------------------------------------------------------------
(* Application of the schema file *)

\* the text between the separators, in file order: piece k lies between the
\* (k-1)-th and the k-th semicolon
SemicolonsBefore(s, i) == Cardinality({j \in 1..(i - 1) : s[j] = ";"})

Piece(s, k) ==
    LET inside == {i \in 1..Len(s) : s[i] # ";" /\ SemicolonsBefore(s, i) = k - 1}
    IN  [n \in 1..Cardinality(inside) |->
            s[CHOOSE i \in inside : Cardinality({j \in inside : j < i}) = n - 1]]

\* a piece that is a statement: something is left after trimming, and it is
\* not a comment
IsStatementPiece(p) ==
    LET t == str_strip(p)
    IN  t # <<>> /\ ~(Len(t) >= 2 /\ t[1] = "-" /\ t[2] = "-")

ExecutableStatements(s) ==
    LET pieces == [k \in 1..(SemicolonsBefore(s, Len(s) + 1) + 1) |-> Piece(s, k)]
        kept == SelectSeq(pieces, IsStatementPiece)
    IN  [k \in 1..Len(kept) |-> str_strip(kept[k])]

\* C18: apply_schema attempts every executable statement of the schema file
\* even when earlier statements fail: a statement whose execution raises is
\* reported as a warning, all remaining statements are still executed in file
\* order, and apply_schema returns normally whatever subset of statements
\* failed.
C18_SchemaAttemptsEveryStatement ==
    /\ obj.pc # "raised"
    /\ obj.pc = "returned" =>
          /\ [k \in 1..Len(obj.queries) |-> obj.queries[k].statement]
                = ExecutableStatements(input.schema_sql)
          /\ Len(obj.warnings)
                = Cardinality({k \in 1..Len(obj.queries) : obj.queries[k].outcome # "ok"})
    /\ (obj.pc = "loop" /\ obj.statements = <<>>) => ENABLED ApplySchemaReturn

\* two statements, the first failed and the second was still executed
C18_Witness ==
    /\ obj.pc = "returned"
    /\ input.schema_sql = <<"D", ";", " ", "D">>
    /\ Len(obj.queries) = 2
    /\ obj.queries[1].outcome = "QueryExecutionError"
    /\ obj.queries[2].outcome = "ok"
    /\ Len(obj.warnings) = 1

-----------------------------------------------------------------------------
(* Dispatch of the hybrid search builder *)

WasSet(method) == \E i \in 1..Len(obj.calls) : obj.calls[i].method = method

\* the argument of the last call of the method
LastSet(method) ==
    LET at == CHOOSE i \in 1..Len(obj.calls) :
                  /\ obj.calls[i].method = method
                  /\ \A j \in (i + 1)..Len(obj.calls) : obj.calls[j].method # method
    IN  obj.calls[at].args

\* C19: execute dispatches only on which parameters are present, whatever the
\* order of the with_* calls: with a domain-cluster id set it runs the
\* relevance-score query for that cluster (even when an embedding is also
\* set); otherwise with a query embedding set, with or without domain
\* concepts, it runs vector search only; otherwise, including domain concepts
\* alone, it raises ValueError; limit defaults to 10 and minimum score to 0.0,
\* and with_weights never changes which call is dispatched or its arguments.
C19_ExecuteDispatchesOnPresence ==
    fn = "execute" =>
        LET limit == IF WasSet("with_limit") THEN LastSet("with_limit") ELSE 10
            min_score == IF WasSet("with_min_score") THEN LastSet("with_min_score")
                         ELSE RZero
        IN  IF WasSet("with_domain_cluster")
            THEN ret = [call |-> "search_by_domain_cluster",
                        domain_cluster_id |-> LastSet("with_domain_cluster"),
                        query_embedding |-> IF WasSet("with_query_embedding")
                                            THEN LastSet("with_query_embedding")
                                            ELSE NoRecord,
                        limit |-> limit, min_score |-> min_score]
            ELSE IF WasSet("with_query_embedding")
            THEN ret = [call |-> "vector_search",
                        query_embedding |-> LastSet("with_query_embedding"),
                        limit |-> limit, threshold |-> min_score]
            ELSE ret = [raised |-> "ValueError"]

\* the cluster id set after the embedding and the weights: the relevance-score
\* query is dispatched, with the embedding and the defaults
C19_Witness ==
    /\ fn = "execute"
    /\ Len(obj.calls) = 3
    /\ obj.calls[1].method = "with_query_embedding"
    /\ obj.calls[2].method = "with_weights"
    /\ obj.calls[3].method = "with_domain_cluster"
    /\ ret = [call |-> "search_by_domain_cluster", domain_cluster_id |-> "c1",
              query_embedding |-> "e1", limit |-> 10, min_score |-> RZero]

-----------------------------------------------------------------------------
(* The hybrid search *)

\* the rows the vector search hands over when asked for twice the limit
RequestedVectorRows ==
    [i \in 1..(IF 2 * input.limit < Len(input.rows) THEN 2 * input.limit
               ELSE Len(input.rows)) |-> input.rows[i]]

ClusterMembersWithRelationships ==
    {c \in domain_cluster : c \in DOMAIN relationship_map}

SearchUnion ==
    {RequestedVectorRows[i].concept_id : i \in 1..Len(RequestedVectorRows)}
        \cup ClusterMembersWithRelationships

VectorSide(c) ==
    IF \E i \in 1..Len(RequestedVectorRows) : RequestedVectorRows[i].concept_id = c
    THEN (CHOOSE r \in {RequestedVectorRows[i] : i \in 1..Len(RequestedVectorRows)} :
              r.concept_id = c).similarity
    ELSE RZero

GraphSide(c) ==
    IF c \in ClusterMembersWithRelationships
    THEN calculate_path_density(c, domain_cluster, relationship_map, 3)
    ELSE RZero

Combined(c) ==
    RAdd(RMul(input.weights[1], VectorSide(c)), RMul(input.weights[2], GraphSide(c)))

\* C20: hybrid_search returns at most limit results, one per concept_id of the
\* union of the vector-search results (requested with twice the limit) and
\* the cluster members that have outgoing relationships; each result has
\* combined_score = vector_weight * vector_score + graph_weight * graph_score,
\* a side with no entry for the concept contributing 0.0; the results are in
\* non-increasing combined_score order and no omitted concept has a higher
\* combined score than a returned one.
C20_HybridSearchTopResults ==
    fn = "hybrid_search" =>
        LET returned == {ret[i].concept_id : i \in 1..Len(ret)}
        IN  /\ Len(ret) <= input.limit
            /\ Len(ret) = Cardinality(returned)
            /\ returned \subseteq SearchUnion
            /\ Len(ret) < input.limit => returned = SearchUnion
            /\ \A i \in 1..Len(ret) :
                  /\ ret[i].vector_score = VectorSide(ret[i].concept_id)
                  /\ ret[i].graph_score = GraphSide(ret[i].concept_id)
                  /\ ret[i].combined_score = Combined(ret[i].concept_id)
            /\ \A i \in 1..(Len(ret) - 1) :
                  RLeq(ret[i + 1].combined_score, ret[i].combined_score)
            /\ \A c \in SearchUnion \ returned : \A i \in 1..Len(ret) :
                  RLeq(Combined(c), ret[i].combined_score)

\* three concepts to rank, two returned: one known to the vector side only,
\* ahead of one known to the graph side only; the third concept is left out
C20_Witness ==
    /\ fn = "hybrid_search"
    /\ input.limit = 2
    /\ Cardinality(SearchUnion) = 3
    /\ Len(ret) = 2
    /\ ret[1].concept_id \notin domain_cluster
    /\ ret[1].vector_score # RZero
    /\ ret[2].concept_id \notin {input.rows[i].concept_id : i \in 1..Len(input.rows)}
    /\ ret[2].graph_score # RZero

-----------------------------------------------------------------------------
(* The steps of upsert and the state of a closed client *)

KeyAbsent(w) == ~\E r \in store : r.id = FullId(uarg[w].table, uarg[w].record_id)

\* C24: upsert is not atomic across its select-then-create-or-update steps:
\* a writer's select runs whatever the position of the other writer, and a
\* select that meets no record sends its writer on to create, so two writers
\* upserting the same absent key can both select before either creates and
\* then both issue a create.
C24_UpsertNotAtomic ==
    /\ [](\A w \in Clients : upc[w] = "select" => ENABLED UpsertSelect(w))
    /\ [][\A w \in Clients : (UpsertSelect(w) /\ KeyAbsent(w)) => upc'[w] = "create"]_vars

\* both writers were called while the key was absent and both issued a create
\* after their select: the first create stored the record, the second failed
C24_Witness ==
    /\ \A w \in Clients : ~ufound[w] /\ uops[w] = <<"select", "create">>
    /\ uarg["w1"].record_id = uarg["w2"].record_id
    /\ {upc[w] : w \in Clients} = {"returned", "raised"}
    /\ Cardinality(store) = 1

\* C26: when upsert finds an existing record and the following update fails
\* at the driver, the failure propagates to the caller as a query-failure
\* error, and no create is attempted for that key.
C26_UpdateFailurePropagates ==
    LET ops == uops[TheClient]
    IN  \A i \in 1..Len(ops) :
            ops[i] = "update" =>
                /\ i = Len(ops)
                /\ upc[TheClient] \in {"returned", "raised"}
                /\ upc[TheClient] = "raised" => uerr[TheClient] = "QueryExecutionError"

\* C28: after close() returns on a database client, is_connected() reports
\* false and any later operation raises the not-connected error, after every
\* sequence of connect and close calls, also when the driver's own close call
\* fails and the failure is swallowed.
C28_ClosedClientIsNotConnected ==
    obj = "close" =>
        /\ fn = "close" => ~client_connected[TheClient]
        /\ fn = "is_connected" => ret = FALSE
        /\ fn = "select" => ret = [raised |-> "DatabaseConnectionError"]

-----------------------------------------------------------------------------
(* Statements behind comment lines of the schema file *)

\* a line that is neither blank nor a comment
IsStatementLine(line) ==
    LET t == str_strip(line)
    IN  t # <<>> /\ ~(Len(t) >= 2 /\ t[1] = "-" /\ t[2] = "-")

\* a piece that is neither empty nor made of comment lines only
HoldsStatement(p) ==
    LET lines == str_split(p, "\n")
    IN  \E n \in 1..Len(lines) : IsStatementLine(lines[n])

PiecesHoldingStatements(s) ==
    LET pieces == [k \in 1..(SemicolonsBefore(s, Len(s) + 1) + 1) |-> Piece(s, k)]
        kept == SelectSeq(pieces, HoldsStatement)
    IN  [k \in 1..Len(kept) |-> str_strip(kept[k])]

\* C27: apply_schema executes each non-empty, non-comment statement of the
\* schema text exactly once and in file order, the statements being the pieces
\* between the semicolons: a piece is skipped only when it is empty or consists
\* solely of a comment, so a statement that follows a '--' comment line inside
\* the same piece is still executed.
C27_StatementAfterCommentLineExecuted ==
    obj.pc = "returned" =>
        [k \in 1..Len(obj.queries) |-> obj.queries[k].statement]
            = PiecesHoldingStatements(input.schema_sql)

-----------------------------------------------------------------------------
(* Order of the nodes of the orchestrated pipeline *)

Started(n) == obj.status[n] # "pending"
Completed(n) == obj.status[n] = "done"

\* C21: in every execution order that respects the declared and the
\* parameter-inferred dependencies, umls_raw_load completes before every
\* other node starts; surreal_upsert_metrics starts only after
\* graph_metrics_calc, concept_embedding_gen and authority_scores_calc have
\* completed; relevance_scores_calc only after surreal_upsert_metrics;
\* surreal_upsert_relevance_scores only after relevance_scores_calc; and
\* audit_report only after surreal_upsert_relevance_scores.
C21_NodesStartAfterTheirUpstream ==
    /\ \A n \in Assets \ {"umls_raw_load"} : Started(n) => Completed("umls_raw_load")
    /\ Started("surreal_upsert_metrics") =>
          /\ Completed("graph_metrics_calc")
          /\ Completed("concept_embedding_gen")
          /\ Completed("authority_scores_calc")
    /\ Started("relevance_scores_calc") => Completed("surreal_upsert_metrics")
    /\ Started("surreal_upsert_relevance_scores") => Completed("relevance_scores_calc")
    /\ Started("audit_report") => Completed("surreal_upsert_relevance_scores")

\* audit_report has started while an ingestion node is still running
C21_Witness ==
    /\ Started("audit_report")
    /\ obj.status["surreal_ingest_relationships"] = "running"

-----------------------------------------------------------------------------
(* The records the nodes of the orchestrated pipeline write *)

\* the ids a node has upserted so far
WrittenBy(n) ==
    LET program == AssetProgram(n, input.records)
    IN  {FullId(program[i].table, program[i].record_id) :
            i \in {j \in 1..obj.at[n] : program[j].kind = "upsert"}}

Keyspace(n) ==
    CASE n = "surreal_ingest_concepts" -> {"concept"}
      [] n = "surreal_ingest_relationships" -> {"relates_to"}
      [] n = "surreal_ingest_ancestors" -> {"is_ancestor_of"}
      [] n = "surreal_ingest_reference_tables" -> {"vocabulary", "domain", "relationship"}
      [] n = "surreal_upsert_metrics" -> {"metric"}
      [] n = "surreal_upsert_relevance_scores" -> {"relevance_score"}
      [] OTHER -> {}

\* C22: the nodes that the dependency graph does not order write to disjoint
\* keyspaces (concept; relates_to; is_ancestor_of; vocabulary, domain and
\* relationship; metric; relevance_score), so no record is written by more
\* than one node and the contents of the database do not depend on how the
\* nodes interleave.
C22_WritersHaveDisjointKeyspaces ==
    /\ \A n, m \in Assets : n # m => Keyspace(n) \cap Keyspace(m) = {}
    /\ \A r \in store : r.id[1] \in Keyspace(r.data)
    /\ \A n \in DbNodes : WrittenBy(n) = {r.id : r \in {x \in store : x.data = n}}

\* two nodes that the graph does not order are both in the middle of their
\* work and each has written a record
C22_Witness ==
    /\ obj.status["surreal_ingest_concepts"] = "running"
    /\ obj.status["surreal_upsert_metrics"] = "running"
    /\ WrittenBy("surreal_ingest_concepts") # {}
    /\ WrittenBy("surreal_upsert_metrics") # {}
    /\ Cardinality(store) >= 2

-----------------------------------------------------------------------------
(* What audit_report reads *)

\* C29: whenever audit_report queries the counts, the writer nodes
\* surreal_ingest_concepts, surreal_upsert_metrics and
\* surreal_upsert_relevance_scores have all completed, in every permitted
\* order, so concepts_in_db is the count of the fully ingested concept table.
C29_AuditReadsAfterAllWriters ==
    "concept" \in DOMAIN obj.seen =>
        /\ Completed("surreal_ingest_concepts")
        /\ Completed("surreal_upsert_metrics")
        /\ Completed("surreal_upsert_relevance_scores")
        /\ obj.seen["concept"] = Len(input.records)

-----------------------------------------------------------------------------
(* The scores of the relevance stage *)

StageReturned == fn \in {"relevance_scores_calc", "step8_calculate_relevance_scores"}

TableConcepts == {input.rows[i][1] : i \in 1..Len(input.rows)}
DomainsOf(c) == {input.rows[i][2] : i \in {j \in 1..Len(input.rows) : input.rows[j][1] = c}}
SharingDomain(d) == {input.rows[i][1] : i \in {j \in 1..Len(input.rows) : input.rows[j][2] = d}}

\* C23: the relevance stage (relevance_scores_calc and the stand-alone step 8)
\* produces exactly one score for each concept of the table that has an
\* embedding, scored against the cluster of all concepts sharing its
\* domain_id, and none for a concept without an embedding; s_density is 0 in
\* every score, the path structure handed to the scorer being always empty.
C23_OneScorePerEmbeddedConcept ==
    StageReturned =>
        /\ DOMAIN ret.scores = TableConcepts \cap DOMAIN input.embeddings
        /\ \A c \in DOMAIN ret.scores :
              LET s == ret.scores[c]
                  cluster == SharingDomain(s.domain_cluster_id)
              IN  /\ s.domain_cluster_id \in DomainsOf(c)
                  /\ s.s_density = RZero
                  /\ s.s_sem = calculate_s_sem(input.embeddings[c],
                                    calculate_domain_cluster_centroid(cluster, input.embeddings))

\* two concepts share a domain, one of them has an embedding and is scored,
\* the other has none and is not
C23_Witness ==
    /\ StageReturned
    /\ input.rows = <<<<1, "Drug">>, <<2, "Drug">>>>
    /\ DOMAIN input.embeddings = {1}
    /\ DOMAIN ret.scores = {1}
    /\ ret.scores[1].domain_cluster_id = "Drug"

\* C30: in the orchestrated and the stand-alone relevance stage every score
\* has s_struct = 1.0, for every input data set, each concept being scored
\* only against the domain cluster that contains it; the composite score
\* varies only with s_sem and s_authority.
C30_StructuralScoreIsAlwaysOne ==
    StageReturned =>
        \A c \in DOMAIN ret.scores :
            LET s == ret.scores[c]
            IN  /\ s.s_struct = ROne
                /\ s.score = sigmoid(WeightedSum(ROne, s.s_sem, RZero, s.s_authority))

\* a scored concept that has no relationship and no ancestor record at all
C30_Witness ==
    /\ fn = "step8_calculate_relevance_scores"
    /\ input.relationships = EmptyMap
    /\ input.ancestors = EmptyMap
    /\ input.rows = <<<<2, "Condition">>>>
    /\ 2 \in DOMAIN ret.scores
    /\ ret.scores[2].s_struct = ROne

-----------------------------------------------------------------------------
(* The stand-alone runner *)

NineSteps ==
    <<"step1_load_data", "step2_setup_database", "step3_ingest_raw_data",
      "step4_calculate_graph_metrics", "step5_generate_embeddings",
      "step6_calculate_authority_scores", "step7_upsert_metrics",
      "step8_calculate_relevance_scores", "step9_upsert_relevance_scores">>

\* the ids whose upsert has returned, from the steps called and the progress
\* of the last of them
UpsertsReturned ==
    {<<k, i>> \in (1..Len(obj.trace)) \X (1..(6 * Len(input.records))) :
        /\ i <= Len(StepProgram(NineSteps[k], input.records))
        /\ (k = Len(obj.trace) /\ obj.pc \in {"in step", "raised"}) => i <= obj.at}

\* C25: the stand-alone runner executes the nine steps strictly in the order
\* load, apply schema, ingest raw tables, graph metrics, embeddings, authority
\* scores, upsert metrics, relevance scores, upsert relevance scores; a step
\* that raises ends the run: no later step is executed, nothing is retried,
\* and the records upserted before remain in the database.
C25_RunnerStepsInOrder ==
    /\ Len(obj.trace) <= Len(NineSteps)
    /\ obj.trace = SubSeq(NineSteps, 1, Len(obj.trace))
    /\ obj.pc = "raised" => ~ENABLED NextRunner
    /\ obj.pc = "completed" => obj.trace = NineSteps
    /\ {r.id : r \in store}
          = {FullId(StepProgram(NineSteps[p[1]], input.records)[p[2]].table,
                    StepProgram(NineSteps[p[1]], input.records)[p[2]].record_id) :
                p \in UpsertsReturned}

\* step 7 raised after the raw tables were ingested: the run is over, steps 8
\* and 9 were never called and the ingested records are still there
C25_Witness ==
    /\ obj.pc = "raised"
    /\ Len(obj.trace) = 7
    /\ input.records = <<"1", "2">>
    /\ obj.at = 1
    /\ Cardinality(store) = 13

=============================================================================
